---- MODULE Spec2Model ----
(***************************************************************************)
(* Auto Text Zoom: the content script (src/content.js) that measures the   *)
(* page's text and decides whether to zoom, and the background script      *)
(* (src/background.js) that walks the tab's zoom to a target in steps.     *)
(*                                                                         *)
(* Units.  Zoom factors are fixed-point integers in thousandths            *)
(* (1000 is the factor 1.0, 50 the increment 0.05, 10 the tolerance 0.01). *)
(* Font sizes are fixed-point integers in tenths of a pixel (135 is        *)
(* 13.5px).  Binary floating-point rounding is not modelled.               *)
(* Timer delays are not modelled: a pending timer may fire at any time.    *)
(***************************************************************************)
EXTENDS Integers, Sequences, FiniteSets, TLC

VARIABLES
    tabZoom,      \* chrome.tabs zoom factor of the tab (the zoom provider's state)
    zoomRecord,   \* chrome.storage.session: the items stored, each a key and a value
    msg,          \* per requester: the message on its way to the background script
    conv,         \* per requester: the background script's work on its request
    resp,         \* per requester: the outcome on its way back to the sender's callback
    track,        \* per requester: what the provider was asked to do for the request
    envAwait,     \* per requester: a request sent by the handler-level environment
    page,         \* the document the content script runs in
    readyState,   \* document.readyState
    boot,         \* bootstrap: "loading" settings, then which listeners it added
    timers,       \* per delay: pending setTimeout callbacks that call analyzeAndZoom
    marker,       \* sessionStorage entry AutoTextZoom_<domain>
    config,       \* the content script's runtime configuration
    pass,         \* per pass: where one call of analyzeAndZoom stands
    button,       \* the reset control on the page
    received,     \* number of messages the content script's listener has handled
    handled,      \* the action of the message that listener handled last
    reply,        \* the response the content script's listener sent last
    calc          \* a histogram computation: its elements, histogram and result

bgVars == <<tabZoom, zoomRecord, msg, conv, resp, track, envAwait>>

contentVars == <<page, readyState, boot, timers, marker, config, pass, button, received, handled, reply, calc>>

vars == <<tabZoom, zoomRecord, msg, conv, resp, track, envAwait,
          page, readyState, boot, timers, marker, config, pass, button, received, handled, reply, calc>>

----------------------------------------------------------------------------
(* Bounds of the model *)

\* concurrent analysis passes of one page (requesters 1..MaxPasses; 0 is the reset control)
MaxPasses == 2

Pass == 1..MaxPasses
ResetRequester == 0
Requester == 0..MaxPasses

----------------------------------------------------------------------------
(* JavaScript values that cross the message boundary *)

Num(n) == [t |-> "number", v |-> n]
NaN == [t |-> "NaN", v |-> 0]
Str(n) == [t |-> "string", v |-> n]
Undefined == [t |-> "undefined", v |-> 0]

\* typeof x === "number" (NaN is a number)
TypeofNumber(x) == x.t \in {"number", "NaN"}

\* x < y and x > y on values whose typeof is "number": false when either is NaN
JsLt(x, y) == x.t = "number" /\ y.t = "number" /\ x.v < y.v
JsGt(x, y) == x.t = "number" /\ y.t = "number" /\ x.v > y.v
JsLe(x, y) == x.t = "number" /\ y.t = "number" /\ x.v <= y.v
JsGe(x, y) == x.t = "number" /\ y.t = "number" /\ x.v >= y.v

\* Math.abs(x - y) < eps
JsAbsDiffLt(x, y, eps) ==
    /\ x.t = "number"
    /\ y.t = "number"
    /\ (IF x.v >= y.v THEN x.v - y.v ELSE y.v - x.v) < eps

\* x || d on a number: d when x is 0 (or NaN)
OrDefault(x, d) == IF x = 0 THEN d ELSE x

----------------------------------------------------------------------------
(* Background script: constants *)

ZOOM_BOUNDS_min == 250
ZOOM_BOUNDS_max == 5000
ZOOM_INCREMENT == 50
ZOOM_TOLERANCE == 10
NATURAL_ZOOM == 1000

Max(a, b) == IF a >= b THEN a ELSE b
Min(a, b) == IF a <= b THEN a ELSE b

\* variant: the upper bound is not applied
clampZoomNoMax(zoom) == Max(zoom, ZOOM_BOUNDS_min)

\* clampZoom
clampZoom(zoom) == Min(Max(zoom, ZOOM_BOUNDS_min), ZOOM_BOUNDS_max)

----------------------------------------------------------------------------
(* Messages, responses and the engine's per-request state *)

NoMsg == [st |-> "none", action |-> "none", zoomLevel |-> Undefined, tabOk |-> TRUE]
Message(action, zoomLevel, tabOk) ==
    [st |-> "sent", action |-> action, zoomLevel |-> zoomLevel, tabOk |-> tabOk]

NoResp == [st |-> "none", success |-> FALSE, zoomLevel |-> 0, error |-> "none"]
Success == [st |-> "response", success |-> TRUE, zoomLevel |-> 0, error |-> "none"]
SuccessZoom(z) == [st |-> "response", success |-> TRUE, zoomLevel |-> z, error |-> "none"]
Failure(e) == [st |-> "response", success |-> FALSE, zoomLevel |-> 0, error |-> e]
\* the sender's callback runs with chrome.runtime.lastError set
RuntimeError == [st |-> "lastError", success |-> FALSE, zoomLevel |-> 0, error |-> "lastError"]

NoConv == [pc |-> "none", targetZoom |-> Undefined, nextZoom |-> 0, isZoomingIn |-> FALSE]

\* chrome.storage.session with no item
NoRecord == {}

\* sender.tab.id of the tab whose content script is modelled
TabId == 1

\* `zoom_${tabId}`
zoomKey(tabId) == "zoom_" \o ToString(tabId)

\* `zoom_timestamp_${tabId}`
zoomTimestampKey(tabId) == "zoom_timestamp_" \o ToString(tabId)

Item(key, value) == [key |-> key, value |-> value]

\* the value of Date.now(); the clock is not modelled
Timestamp == [t |-> "timestamp"]

\* chrome.storage.session.set(items)
sessionSet(store, items) ==
    {item \in store : \A new \in items : new.key # item.key} \cup items

\* chrome.storage.session.remove(keys)
sessionRemove(store, keys) == {item \in store : item.key \notin keys}

\* the count of incremental values kept for one request stops here
MaxSteps == 96

\* What the provider was asked for one request of the handler-level environment
\* (a record of the run, not program state): the requested target, the zoom
\* first read, the last incremental value and the last value (incremental or
\* final) it applied (0: none yet), the number of incremental values applied,
\* whether any other request's value was applied meanwhile, and how the
\* request ended.
NoTrack ==
    [target |-> Undefined, start |-> 0, lastStep |-> 0, lastSet |-> 0,
     steps |-> 0, alone |-> TRUE, outcome |-> "none"]

\* the record of the run after request r had the provider apply a value: every
\* other recorded request in the engine sees the tab's zoom written by r
Recorded(r, tr) ==
    [q \in Requester |->
        IF ~envAwait[q] THEN NoTrack
        ELSE IF q # r /\ conv[q].pc # "none" THEN [tr[q] EXCEPT !.alone = FALSE]
        ELSE tr[q]]

----------------------------------------------------------------------------
(* Background script: handlers *)

\* handleSetZoom: the test that rejects a zoom level
InvalidZoomLevel(zoomLevel) ==
    \/ ~TypeofNumber(zoomLevel)
    \/ JsLt(zoomLevel, Num(ZOOM_BOUNDS_min))
    \/ JsGt(zoomLevel, Num(ZOOM_BOUNDS_max))

\* variant: a tolerance of 0.1
withinToleranceTenth(currentZoom, targetZoom) ==
    JsAbsDiffLt(Num(currentZoom), targetZoom, 10 * ZOOM_TOLERANCE)

\* applyGradualZoom: Math.abs(currentZoom - targetZoom) < 0.01
withinTolerance(currentZoom, targetZoom) ==
    JsAbsDiffLt(Num(currentZoom), targetZoom, ZOOM_TOLERANCE)

\* a variant that writes the zoom level without its timestamp
storeZoomLevelOnly(store, tabId, zoomLevel) ==
    sessionSet(store, {Item(zoomKey(tabId), zoomLevel)})

\* storeZoomLevel: the session store after the write of both items
storeZoomLevel(store, tabId, zoomLevel) ==
    sessionSet(store, {Item(zoomKey(tabId), zoomLevel),
                       Item(zoomTimestampKey(tabId), Timestamp)})

\* handleMessage: the content script's message reaches the listener
BgHandleMessage(r) ==
    /\ msg[r].st = "sent"
    /\ msg' = [msg EXCEPT ![r] = NoMsg]
    /\ IF ~msg[r].tabOk
         THEN /\ resp' = [resp EXCEPT ![r] = Failure("Invalid sender")]
              /\ UNCHANGED <<conv, track>>
         ELSE CASE msg[r].action = "setZoom" ->
                     \* handleSetZoom
                     IF InvalidZoomLevel(msg[r].zoomLevel)
                       THEN /\ resp' = [resp EXCEPT ![r] = Failure("Invalid zoom level")]
                            /\ UNCHANGED <<conv, track>>
                       ELSE \* applyGradualZoom calls chrome.tabs.getZoom
                            /\ conv' = [conv EXCEPT ![r] =
                                 [NoConv EXCEPT !.pc = "getZoom",
                                                !.targetZoom = msg[r].zoomLevel]]
                            /\ track' = Recorded(r, [track EXCEPT ![r] =
                                 [NoTrack EXCEPT !.target = msg[r].zoomLevel]])
                            /\ UNCHANGED resp
                [] msg[r].action = "getZoom" ->
                     \* handleGetZoom calls chrome.tabs.getZoom
                     /\ conv' = [conv EXCEPT ![r] = [NoConv EXCEPT !.pc = "handleGetZoom"]]
                     /\ UNCHANGED <<resp, track>>
                [] OTHER ->
                     /\ resp' = [resp EXCEPT ![r] = Failure("Unknown action")]
                     /\ UNCHANGED <<conv, track>>
    /\ UNCHANGED <<tabZoom, zoomRecord, envAwait, contentVars>>

\* handleGetZoom: the callback of chrome.tabs.getZoom
HandleGetZoomCallback(r, lastError) ==
    /\ conv[r].pc = "handleGetZoom"
    /\ conv' = [conv EXCEPT ![r] = NoConv]
    /\ resp' = [resp EXCEPT ![r] =
         IF lastError THEN Failure("provider")
                      ELSE SuccessZoom(OrDefault(tabZoom, NATURAL_ZOOM))]
    /\ UNCHANGED <<tabZoom, zoomRecord, msg, track, envAwait, contentVars>>

\* a variant that steps upwards whatever the direction
signedIncrementAlwaysUp(isZoomingIn) == ZOOM_INCREMENT

\* applyGradualZoom: isZoomingIn ? ZOOM_INCREMENT : -ZOOM_INCREMENT
signedIncrement(isZoomingIn) ==
    IF isZoomingIn THEN ZOOM_INCREMENT ELSE -ZOOM_INCREMENT

\* applyGradualZoom: the callback of chrome.tabs.getZoom
GetZoomCallback(r, lastError) ==
    /\ conv[r].pc = "getZoom"
    /\ LET currentZoom == tabZoom
           targetZoom == conv[r].targetZoom
           isZoomingIn == JsGt(targetZoom, Num(currentZoom))
           increment == signedIncrement(isZoomingIn)
           nextZoom == clampZoom(currentZoom + increment)
           started == IF track[r].start = 0
                        THEN [track[r] EXCEPT !.start = currentZoom]
                        ELSE track[r]
       IN  IF lastError
             THEN /\ resp' = [resp EXCEPT ![r] = Failure("provider")]
                  /\ conv' = [conv EXCEPT ![r] = NoConv]
                  /\ track' = Recorded(r, [track EXCEPT ![r].outcome = "failure"])
                  /\ UNCHANGED zoomRecord
             ELSE IF withinTolerance(currentZoom, targetZoom)
                    THEN /\ zoomRecord' = storeZoomLevel(zoomRecord, TabId, targetZoom)
                         /\ resp' = [resp EXCEPT ![r] = Success]
                         /\ conv' = [conv EXCEPT ![r] = NoConv]
                         /\ track' = Recorded(r, [track EXCEPT ![r] =
                                        [started EXCEPT !.outcome = "success"]])
                    ELSE \* chrome.tabs.setZoom(tabId, nextZoom, ...) is called
                         /\ conv' = [conv EXCEPT ![r] =
                              [conv[r] EXCEPT !.pc = "setZoom",
                                              !.nextZoom = nextZoom,
                                              !.isZoomingIn = isZoomingIn]]
                         /\ track' = Recorded(r, [track EXCEPT ![r] = started])
                         /\ UNCHANGED <<resp, zoomRecord>>
    /\ UNCHANGED <<tabZoom, msg, envAwait, contentVars>>

\* a variant that answers a provider error with a failure and then goes on to
\* the next step after the delay
SetZoomCallbackRetrying(r, lastError) ==
    /\ conv[r].pc = "setZoom"
    /\ LET nextZoom == conv[r].nextZoom
           targetZoom == conv[r].targetZoom
           isZoomingIn == conv[r].isZoomingIn
       IN  IF lastError
             THEN /\ resp' = [resp EXCEPT ![r] = Failure("provider")]
                  /\ conv' = [conv EXCEPT ![r].pc = "timer"]
                  /\ track' = Recorded(r, [track EXCEPT ![r].outcome = "failure"])
                  /\ UNCHANGED tabZoom
             ELSE /\ tabZoom' = nextZoom
                  /\ track' = Recorded(r, [track EXCEPT ![r].lastStep = nextZoom,
                                                       ![r].lastSet = nextZoom,
                                                       ![r].steps = Min(@ + 1, MaxSteps)])
                  /\ conv' = [conv EXCEPT ![r].pc =
                       IF \/ (isZoomingIn /\ JsGe(Num(nextZoom), targetZoom))
                          \/ (~isZoomingIn /\ JsLe(Num(nextZoom), targetZoom))
                         THEN "final"
                         ELSE "timer"]
                  /\ UNCHANGED resp
    /\ UNCHANGED <<zoomRecord, msg, envAwait, contentVars>>

\* applyGradualZoom: the provider applies nextZoom and runs the callback of setZoom
SetZoomCallback(r, lastError) ==
    /\ conv[r].pc = "setZoom"
    /\ LET nextZoom == conv[r].nextZoom
           targetZoom == conv[r].targetZoom
           isZoomingIn == conv[r].isZoomingIn
       IN  IF lastError
             THEN /\ resp' = [resp EXCEPT ![r] = Failure("provider")]
                  /\ conv' = [conv EXCEPT ![r] = NoConv]
                  /\ track' = Recorded(r, [track EXCEPT ![r].outcome = "failure"])
                  /\ UNCHANGED tabZoom
             ELSE /\ tabZoom' = nextZoom
                  /\ track' = Recorded(r, [track EXCEPT ![r].lastStep = nextZoom,
                                                       ![r].lastSet = nextZoom,
                                                       ![r].steps = Min(@ + 1, MaxSteps)])
                  /\ conv' = [conv EXCEPT ![r].pc =
                       IF \/ (isZoomingIn /\ JsGe(Num(nextZoom), targetZoom))
                          \/ (~isZoomingIn /\ JsLe(Num(nextZoom), targetZoom))
                         THEN "final"     \* setFinalZoom calls chrome.tabs.setZoom
                         ELSE "timer"]    \* setTimeout(applyGradualZoom, ZOOM_DELAY)
                  /\ UNCHANGED resp
    /\ UNCHANGED <<zoomRecord, msg, envAwait, contentVars>>

\* the timer set by applyGradualZoom fires: applyGradualZoom calls chrome.tabs.getZoom
ZoomTimerFires(r) ==
    /\ conv[r].pc = "timer"
    /\ conv' = [conv EXCEPT ![r].pc = "getZoom"]
    /\ UNCHANGED <<tabZoom, zoomRecord, msg, resp, track, envAwait, contentVars>>

\* setFinalZoom: the provider applies targetZoom and runs the callback of setZoom
FinalZoomCallback(r, lastError) ==
    /\ conv[r].pc = "final"
    /\ conv' = [conv EXCEPT ![r] = NoConv]
    /\ IF lastError
         THEN /\ resp' = [resp EXCEPT ![r] = Failure("provider")]
              /\ track' = Recorded(r, [track EXCEPT ![r].outcome = "failure"])
              /\ UNCHANGED <<tabZoom, zoomRecord>>
         ELSE /\ tabZoom' = conv[r].targetZoom.v
              /\ zoomRecord' = storeZoomLevel(zoomRecord, TabId, conv[r].targetZoom)
              /\ resp' = [resp EXCEPT ![r] = Success]
              /\ track' = Recorded(r, [track EXCEPT ![r].lastSet = conv[r].targetZoom.v,
                                                   ![r].outcome = "success"])
    /\ UNCHANGED <<msg, envAwait, contentVars>>

BgStep ==
    \/ \E r \in Requester : BgHandleMessage(r)
    \/ \E r \in Requester, lastError \in BOOLEAN : HandleGetZoomCallback(r, lastError)
    \/ \E r \in Requester, lastError \in BOOLEAN : GetZoomCallback(r, lastError)
    \/ \E r \in Requester, lastError \in BOOLEAN : SetZoomCallback(r, lastError)
    \/ \E r \in Requester : ZoomTimerFires(r)
    \/ \E r \in Requester, lastError \in BOOLEAN : FinalZoomCallback(r, lastError)

----------------------------------------------------------------------------
(* Content script: configuration *)

DEFAULT_minFontSize == 150
DEFAULT_zoomLevel == 1350
MIN_TEXT_LENGTH == 10

\* Stand-ins for DEFAULT_CONFIG.batchSize (50) and
\* DEFAULT_CONFIG.maxElementsToAnalyze (200), scaled down to the model's pages.
BatchSize == 2
MaxElementsToAnalyze == 3

DEFAULT_CONFIG ==
    [minFontSize |-> Num(DEFAULT_minFontSize), zoomLevel |-> Num(DEFAULT_zoomLevel)]

----------------------------------------------------------------------------
(* Content script: the page and its text elements *)

\* An element: its computed font size (tenths of a pixel; 0 when it does not
\* parse to a positive number), the length of its trimmed text, its rendered
\* box, and whether reading its computed style throws.
Box(fontSize, textLength, offsetWidth, offsetHeight, throws) ==
    [fontSize |-> fontSize, textLength |-> textLength,
     offsetWidth |-> offsetWidth, offsetHeight |-> offsetHeight, throws |-> throws]

\* an element with a box of 100 by 20 pixels, or with no rendered box
Element(fontSize, textLength, visible, throws) ==
    IF visible THEN Box(fontSize, textLength, 100, 20, throws)
    ELSE Box(fontSize, textLength, 0, 0, throws)

\* A container the selector list can match: its rendered box and the
\* text-bearing elements inside it, in document order.
Container(visible, elems) ==
    [offsetWidth |-> IF visible THEN 100 ELSE 0,
     offsetHeight |-> IF visible THEN 20 ELSE 0, elems |-> elems]

\* A document: the matches of the selector list, in the list's order, and the
\* text-bearing elements of document.body.
Document(containers, body) == [containers |-> containers, body |-> body]

\* variant: only the width is looked at
isVisibleElementByWidth(element) == element.offsetWidth > 0

\* isVisibleElement, for an element that exists
isVisibleElement(element) == element.offsetWidth > 0 /\ element.offsetHeight > 0

RECURSIVE firstVisible(_, _)
firstVisible(containers, body) ==
    IF containers = <<>> THEN body
    ELSE IF isVisibleElement(Head(containers)) THEN Head(containers).elems
    ELSE firstVisible(Tail(containers), body)

\* the text-bearing elements of the container findMainContentContainer returns
findMainContentContainer(doc) == firstVisible(doc.containers, doc.body)

qualifies(element) ==
    /\ element.textLength > 0
    /\ element.textLength >= MIN_TEXT_LENGTH
    /\ isVisibleElement(element)

getTextElements(elems) == SelectSeq(elems, qualifies)

\* a variant that keeps the whole list
sliceElementsUncapped(textElements) == textElements

\* textElements.slice(0, config.maxElementsToAnalyze)
sliceElements(textElements) ==
    SubSeq(textElements, 1, Min(Len(textElements), MaxElementsToAnalyze))

----------------------------------------------------------------------------
(* Content script: the font-size histogram, a JavaScript object *)

\* A property key is the string String(fontSize): the integer part alone for an
\* integer-valued size ("12"), integer part and fractional digit otherwise ("13.5").
ToKey(fontSize) ==
    IF fontSize % 10 = 0 THEN <<fontSize \div 10>> ELSE <<fontSize \div 10, fontSize % 10>>

\* parseFloat(key)
parseFloat(key) == IF Len(key) = 1 THEN 10 * key[1] ELSE 10 * key[1] + key[2]

\* a key that is a canonical array index (a non-negative integer below 2^32 - 1)
IsArrayIndex(key) == Len(key) = 1

\* An object is the sequence of its own properties in creation order.
Property(key, weight) == [key |-> key, weight |-> weight]

ObjHas(obj, key) == \E i \in 1..Len(obj) : obj[i].key = key

\* obj[key] || 0
ObjGetOrZero(obj, key) ==
    IF ObjHas(obj, key)
      THEN obj[CHOOSE i \in 1..Len(obj) : obj[i].key = key].weight
      ELSE 0

\* obj[key] = weight: an existing property keeps its place, a new one is created last
ObjSet(obj, key, weight) ==
    IF ObjHas(obj, key)
      THEN [i \in 1..Len(obj) |->
              IF obj[i].key = key THEN Property(key, weight) ELSE obj[i]]
      ELSE Append(obj, Property(key, weight))

IsIndexProperty(prop) == IsArrayIndex(prop.key)
IsStringProperty(prop) == ~IsArrayIndex(prop.key)

RECURSIVE SortByIndex(_)
SortByIndex(props) ==
    IF props = <<>> THEN <<>>
    ELSE LET least == CHOOSE i \in 1..Len(props) :
                         \A j \in 1..Len(props) : props[i].key[1] <= props[j].key[1]
             rest == [i \in 1..(Len(props) - 1) |->
                         IF i < least THEN props[i] ELSE props[i + 1]]
         IN  <<props[least]>> \o SortByIndex(rest)

\* variant: every key in creation order
ObjectEntriesInsertionOrder(obj) == obj

\* Object.entries(obj): array-index keys in ascending numeric order, then the
\* other string keys in creation order
ObjectEntries(obj) ==
    SortByIndex(SelectSeq(obj, IsIndexProperty)) \o SelectSeq(obj, IsStringProperty)

\* variant: the weight is assigned, not accumulated
measureElementOverwrite(fontSizes, element) ==
    IF element.throws THEN fontSizes
    ELSE IF element.fontSize > 0 /\ element.textLength > 0
      THEN ObjSet(fontSizes, ToKey(element.fontSize), element.textLength)
      ELSE fontSizes

\* analyzeTextSizes: the body of the loop of processBatch for one element
measureElement(fontSizes, element) ==
    IF element.throws THEN fontSizes
    ELSE IF element.fontSize > 0 /\ element.textLength > 0
      THEN ObjSet(fontSizes, ToKey(element.fontSize),
                  ObjGetOrZero(fontSizes, ToKey(element.fontSize)) + element.textLength)
      ELSE fontSizes

RECURSIVE measureRange(_, _, _, _)
measureRange(fontSizes, elements, i, endIndex) ==
    IF i > endIndex THEN fontSizes
    ELSE measureRange(measureElement(fontSizes, elements[i]), elements, i + 1, endIndex)

\* a variant that measures the last element of the previous batch again
processBatchOverlapping(elements, processedCount, fontSizes) ==
    LET endIndex == Min(processedCount + BatchSize, Len(elements))
    IN  [processedCount |-> endIndex,
         fontSizes |-> measureRange(fontSizes, elements, Max(processedCount, 1), endIndex)]

\* analyzeTextSizes: one call of processBatch (processedCount counts from 0)
processBatch(elements, processedCount, fontSizes) ==
    LET endIndex == Min(processedCount + BatchSize, Len(elements))
    IN  [processedCount |-> endIndex,
         fontSizes |-> measureRange(fontSizes, elements, processedCount + 1, endIndex)]

\* variant: weight >= maxWeight
RECURSIVE scanEntriesGe(_, _, _)
scanEntriesGe(entries, predominantSize, maxWeight) ==
    IF entries = <<>> THEN predominantSize
    ELSE IF Head(entries).weight >= maxWeight
      THEN scanEntriesGe(Tail(entries), parseFloat(Head(entries).key), Head(entries).weight)
      ELSE scanEntriesGe(Tail(entries), predominantSize, maxWeight)

\* calculatePredominantSize: the loop over Object.entries(fontSizes)
RECURSIVE scanEntries(_, _, _)
scanEntries(entries, predominantSize, maxWeight) ==
    IF entries = <<>> THEN predominantSize
    ELSE IF Head(entries).weight > maxWeight
      THEN scanEntries(Tail(entries), parseFloat(Head(entries).key), Head(entries).weight)
      ELSE scanEntries(Tail(entries), predominantSize, maxWeight)

calculatePredominantSize(fontSizes) == scanEntries(ObjectEntries(fontSizes), 0, 0)

\* A computation on a list of elements. For the histogram: the elements
\* analyzeTextSizes is given, the same elements in another order, how many of them processBatch has measured, the
\* histogram built from each order, and what calculatePredominantSize returns
\* for each.
Calc(st, elements, other, fontSizes, otherFontSizes) ==
    [st |-> st, elements |-> elements, other |-> other, processedCount |-> 0,
     fontSizes |-> fontSizes, otherFontSizes |-> otherFontSizes,
     result |-> 0, otherResult |-> 0]

NoCalc == Calc("none", <<>>, <<>>, <<>>, <<>>)

----------------------------------------------------------------------------
(* Content script: state and handlers *)

\* messages the content script receives during the life of the page
MaxMessages == 1

\* startConfig records the configuration in effect when the call began
IdlePass ==
    [pc |-> "idle", processedCount |-> 0, fontSizes |-> <<>>, predominantSize |-> 0,
     startConfig |-> DEFAULT_CONFIG]

\* controls: the elements of the page that have the id of the reset control
NoButton == [present |-> FALSE, disabled |-> FALSE, label |-> "none", controls |-> 0]

NotBooted == [st |-> "loading", dcl |-> FALSE, load |-> FALSE]

\* x is truthy, for the values settings carry
Truthy(x) == x.t = "string" \/ (x.t = "number" /\ x.v # 0)

\* x || d
JsOr(x, d) == IF Truthy(x) THEN x ELSE d

Settings(minFontSize, zoomLevel) ==
    [t |-> "object", minFontSize |-> minFontSize, zoomLevel |-> zoomLevel]
NoSettings == [t |-> "undefined", minFontSize |-> Undefined, zoomLevel |-> Undefined]

\* the elements one call of analyzeAndZoom measures
textElementsOf(doc) == getTextElements(findMainContentContainer(doc))
elementsToAnalyze(doc) == sliceElements(textElementsOf(doc))

\* variant: only the value "zoomed" counts
hasMarkerZoomedOnly(m) == m = "zoomed"

\* analyzeAndZoom: sessionStorage.getItem(cacheKey) is truthy
hasMarker(m) == m # "none"

\* variant: predominantSize > config.minFontSize
isAdequateStrict(predominantSize, minFontSize) == JsGt(Num(predominantSize), minFontSize)

\* checkAndApplyZoom: predominantSize >= config.minFontSize
isAdequate(predominantSize, minFontSize) == JsGe(Num(predominantSize), minFontSize)

\* variant: currentZoom > config.zoomLevel
userHasSufficientZoomAbove(currentZoom, zoomLevel) ==
    currentZoom # NATURAL_ZOOM /\ JsGt(Num(currentZoom), zoomLevel)

\* checkAndApplyZoom: currentZoom !== 1.0 && currentZoom >= config.zoomLevel
userHasSufficientZoom(currentZoom, zoomLevel) ==
    currentZoom # NATURAL_ZOOM /\ JsGe(Num(currentZoom), zoomLevel)

\* variant: a missing response is read as a response without a zoom level
getCurrentZoomRejectsOnError(response) ==
    response.st = "lastError" \/ (response.st = "response" /\ ~response.success)

\* getCurrentZoom: the promise is rejected
getCurrentZoomRejects(response) == response.st # "response" \/ ~response.success

\* variant: anything but a runtime error counts as success
applyZoomUnlessError(response) == response.st # "lastError"

\* applyZoom: what the promise resolves to
applyZoom(response) == response.st = "response" /\ response.success

\* variant: the marker is kept
clearDomainCacheKeeps(m) == m

\* clearDomainCache: the marker after the call
clearDomainCache(m) == "none"

\* a variant that appends a control whether or not one is there
addResetButtonAlways(b) ==
    [present |-> TRUE, disabled |-> b.disabled,
     label |-> IF b.present THEN b.label ELSE "Reset Zoom",
     controls |-> Min(b.controls + 1, 2)]

\* addResetButton: the control after the call
addResetButton(b) ==
    IF b.present THEN b
    ELSE [present |-> TRUE, disabled |-> FALSE, label |-> "Reset Zoom",
          controls |-> b.controls + 1]

\* the configuration in effect when the call in slot p began (or begins now)
startedWith(p) == IF pass[p].pc = "idle" THEN config ELSE pass[p].startConfig

\* a variant that writes the marker before it asks for the current zoom
checkAndApplyZoomMarksEarly(p, predominantSize) ==
    IF predominantSize <= 0 \/ isAdequate(predominantSize, config.minFontSize)
      THEN /\ marker' = "processed"
           /\ pass' = [pass EXCEPT ![p] = IdlePass]
           /\ UNCHANGED msg
      ELSE /\ msg' = [msg EXCEPT ![p] = Message("getZoom", Undefined, TRUE)]
           /\ pass' = [pass EXCEPT ![p] =
                [IdlePass EXCEPT !.pc = "getZoom", !.predominantSize = predominantSize,
                                 !.startConfig = startedWith(p)]]
           /\ marker' = "processed"

\* checkAndApplyZoom, up to its first await
checkAndApplyZoom(p, predominantSize) ==
    IF predominantSize <= 0 \/ isAdequate(predominantSize, config.minFontSize)
      THEN /\ marker' = "processed"
           /\ pass' = [pass EXCEPT ![p] = IdlePass]
           /\ UNCHANGED msg
      ELSE \* getCurrentZoom sends getZoom
           /\ msg' = [msg EXCEPT ![p] = Message("getZoom", Undefined, TRUE)]
           /\ pass' = [pass EXCEPT ![p] =
                [IdlePass EXCEPT !.pc = "getZoom", !.predominantSize = predominantSize,
                                 !.startConfig = startedWith(p)]]
           /\ UNCHANGED marker

\* analyzeTextSizes: one call of processBatch and, when it resolves the promise,
\* the rest of analyzeAndZoom up to its next await
runBatch(p, processedCount, fontSizes) ==
    LET elements == elementsToAnalyze(page)
        batch == processBatch(elements, processedCount, fontSizes)
    IN  IF batch.processedCount < Len(elements)
          THEN \* setTimeout(processBatch, 0)
               /\ pass' = [pass EXCEPT ![p] =
                    [IdlePass EXCEPT !.pc = "batch",
                                     !.processedCount = batch.processedCount,
                                     !.fontSizes = batch.fontSizes,
                                     !.startConfig = startedWith(p)]]
               /\ UNCHANGED <<marker, msg>>
          ELSE checkAndApplyZoom(p, calculatePredominantSize(batch.fontSizes))

\* the delays scheduleAnalysis is called with: config.analysisDelay by
\* handleDOMReady, 0 by handleWindowLoad, 500 by the message handlers
DEFAULT_analysisDelay == 1000
LOAD_DELAY == 0
MESSAGE_DELAY == 500
Delays == {DEFAULT_analysisDelay, LOAD_DELAY, MESSAGE_DELAY}

NoTimers == [delay \in Delays |-> 0]

\* scheduleAnalysis(delay)
scheduleAnalysis(pending, delay) == [pending EXCEPT ![delay] = @ + 1]

\* bootstrap, after initializeExtension: the settings were read (or the read failed)
Bootstrap(settings, failed) ==
    /\ boot.st = "loading"
    /\ config' = IF failed THEN config
                 ELSE [config EXCEPT !.minFontSize = settings.minFontSize,
                                     !.zoomLevel = settings.zoomLevel]
    /\ boot' = [st |-> "done",
                dcl |-> (readyState = "loading"),
                load |-> (readyState # "complete")]
    /\ timers' = IF readyState = "loading" THEN timers
                  ELSE scheduleAnalysis(timers, DEFAULT_analysisDelay)
    /\ UNCHANGED <<bgVars, page, readyState, marker, pass, button, received, handled, reply, calc>>

\* the document fires DOMContentLoaded: handleDOMReady when it is listened for
DOMContentLoaded ==
    /\ readyState = "loading"
    /\ readyState' = "interactive"
    /\ timers' = IF boot.dcl THEN scheduleAnalysis(timers, DEFAULT_analysisDelay) ELSE timers
    /\ UNCHANGED <<bgVars, page, boot, marker, config, pass, button, received, handled, reply, calc>>

\* the window fires load: handleWindowLoad when it is listened for
WindowLoad ==
    /\ readyState = "interactive"
    /\ readyState' = "complete"
    /\ timers' = IF boot.load THEN scheduleAnalysis(timers, LOAD_DELAY) ELSE timers
    /\ UNCHANGED <<bgVars, page, boot, marker, config, pass, button, received, handled, reply, calc>>

\* typeof x, for the values a message may carry as its settings
typeofValue(x) == IF x.t = "null" THEN "object" ELSE x.t

\* a variant without the test !settings
invalidSettingsTypeofOnly(settings) == typeofValue(settings) # "object"

\* handleSettingsUpdate: !settings || typeof settings !== "object"
invalidSettings(settings) ==
    settings.t \in {"undefined", "null"} \/ typeofValue(settings) # "object"

\* a variant that falls back to the built-in defaults, not to the values in effect
updateConfigFromDefaults(cfg, settings) ==
    [cfg EXCEPT !.minFontSize = JsOr(settings.minFontSize, DEFAULT_CONFIG.minFontSize),
                !.zoomLevel = JsOr(settings.zoomLevel, DEFAULT_CONFIG.zoomLevel)]

\* handleSettingsUpdate: the two assignments to config
updateConfig(cfg, settings) ==
    [cfg EXCEPT !.minFontSize = JsOr(settings.minFontSize, cfg.minFontSize),
                !.zoomLevel = JsOr(settings.zoomLevel, cfg.zoomLevel)]

\* a variant of the switch whose default falls into the reanalyze case
handledActionFallsThrough(action) ==
    IF action = "settingsUpdated" THEN action ELSE "reanalyze"

\* handleMessage: the case of switch (message.action) the message takes
handledAction(action) ==
    IF action \in {"settingsUpdated", "reanalyze"} THEN action ELSE "default"

\* handleMessage of the content script
ContentHandleMessage(action, settings) ==
    /\ received' = received + 1
    /\ handled' = action
    /\ CASE handledAction(action) = "settingsUpdated" ->
              \* handleSettingsUpdate
              IF invalidSettings(settings)
                THEN \* throws; caught by handleMessage
                     /\ reply' = Failure("Invalid settings object")
                     /\ UNCHANGED <<config, marker, timers>>
                ELSE /\ config' = updateConfig(config, settings)
                     /\ marker' = clearDomainCache(marker)
                     /\ timers' = scheduleAnalysis(timers, MESSAGE_DELAY)
                     /\ reply' = Success
         [] handledAction(action) = "reanalyze" ->
              /\ marker' = clearDomainCache(marker)
              /\ timers' = scheduleAnalysis(timers, MESSAGE_DELAY)
              /\ reply' = Success
              /\ UNCHANGED config
         [] OTHER ->
              /\ reply' = Failure("Unknown action")
              /\ UNCHANGED <<config, marker, timers>>
    /\ UNCHANGED <<bgVars, page, readyState, boot, pass, button, calc>>

\* the pass slot a new call of analyzeAndZoom takes
FreeSlot(p) == pass[p].pc = "idle" /\ \A q \in Pass : q < p => pass[q].pc # "idle"

\* a timer set by scheduleAnalysis fires: analyzeAndZoom up to its first await
AnalysisTimerFires(p, delay) ==
    /\ timers[delay] > 0
    /\ FreeSlot(p)
    /\ timers' = [timers EXCEPT ![delay] = @ - 1]
    /\ IF hasMarker(marker)
         THEN UNCHANGED <<marker, pass, msg>>
         ELSE IF Len(textElementsOf(page)) = 0
           THEN UNCHANGED <<marker, pass, msg>>
           ELSE runBatch(p, 0, <<>>)
    /\ UNCHANGED <<tabZoom, zoomRecord, conv, resp, track, envAwait,
                   page, readyState, boot, config, button, received, handled, reply, calc>>

\* the timer set by processBatch fires: the next batch
BatchTimerFires(p) ==
    /\ pass[p].pc = "batch"
    /\ runBatch(p, pass[p].processedCount, pass[p].fontSizes)
    /\ UNCHANGED <<tabZoom, zoomRecord, conv, resp, track, envAwait,
                   page, readyState, boot, timers, config, button, received, handled, reply, calc>>

\* the callback of a sendMessage runs without a response from the listener:
\* with chrome.runtime.lastError set, or with no response object
ChannelFails(r, how) ==
    /\ msg[r].st = "sent"
    /\ ~envAwait[r]
    /\ msg' = [msg EXCEPT ![r] = NoMsg]
    /\ resp' = [resp EXCEPT ![r] = [RuntimeError EXCEPT !.st = how]]
    /\ UNCHANGED <<tabZoom, zoomRecord, conv, track, envAwait, contentVars>>

\* getCurrentZoom's callback, and checkAndApplyZoom up to its next await
ContentGetZoomCallback(p) ==
    /\ pass[p].pc = "getZoom"
    /\ resp[p].st # "none"
    /\ resp' = [resp EXCEPT ![p] = NoResp]
    /\ LET rejected == getCurrentZoomRejects(resp[p])
           currentZoom == OrDefault(resp[p].zoomLevel, NATURAL_ZOOM)
       IN  IF rejected
             THEN /\ pass' = [pass EXCEPT ![p] = IdlePass]
                  /\ UNCHANGED <<marker, msg>>
             ELSE IF userHasSufficientZoom(currentZoom, config.zoomLevel)
               THEN /\ marker' = "processed"
                    /\ pass' = [pass EXCEPT ![p] = IdlePass]
                    /\ UNCHANGED msg
               ELSE \* applyZoom(config.zoomLevel) sends setZoom
                    /\ msg' = [msg EXCEPT ![p] = Message("setZoom", config.zoomLevel, TRUE)]
                    /\ pass' = [pass EXCEPT ![p].pc = "setZoom"]
                    /\ UNCHANGED marker
    /\ UNCHANGED <<tabZoom, zoomRecord, conv, track, envAwait,
                   page, readyState, boot, timers, config, button, received, handled, reply, calc>>

\* applyZoom's callback, and the rest of checkAndApplyZoom
ContentSetZoomCallback(p) ==
    /\ pass[p].pc = "setZoom"
    /\ resp[p].st # "none"
    /\ resp' = [resp EXCEPT ![p] = NoResp]
    /\ pass' = [pass EXCEPT ![p] = IdlePass]
    /\ IF applyZoom(resp[p])
         THEN /\ marker' = "zoomed"
              /\ button' = addResetButton(button)
         ELSE UNCHANGED <<marker, button>>
    /\ UNCHANGED <<tabZoom, zoomRecord, msg, conv, track, envAwait,
                   page, readyState, boot, timers, config, received, handled, reply, calc>>

\* handleResetClick up to its await: applyZoom(1.0) sends setZoom
ResetClick ==
    /\ button.present
    /\ ~button.disabled
    /\ button' = [button EXCEPT !.disabled = TRUE, !.label = "Resetting..."]
    /\ msg' = [msg EXCEPT ![ResetRequester] = Message("setZoom", Num(NATURAL_ZOOM), TRUE)]
    /\ UNCHANGED <<tabZoom, zoomRecord, conv, resp, track, envAwait,
                   page, readyState, boot, timers, marker, config, pass, received, handled, reply, calc>>

\* applyZoom's callback in handleResetClick, and the rest of the handler
ResetCallback ==
    /\ button.present
    /\ button.disabled
    /\ resp[ResetRequester].st # "none"
    /\ resp' = [resp EXCEPT ![ResetRequester] = NoResp]
    /\ IF applyZoom(resp[ResetRequester])
         THEN \* clearDomainCache(); button.remove()
              /\ marker' = clearDomainCache(marker)
              /\ button' = NoButton
         ELSE /\ button' = [button EXCEPT !.disabled = FALSE, !.label = "Reset Zoom"]
              /\ UNCHANGED marker
    /\ UNCHANGED <<tabZoom, zoomRecord, msg, conv, track, envAwait,
                   page, readyState, boot, timers, config, pass, received, handled, reply, calc>>

----------------------------------------------------------------------------
(* The extension in one tab *)

E(fontSize, textLength) == Element(fontSize, textLength, TRUE, FALSE)

\* three visible elements at 10, 11 and 12px
PageSmallText == Document(<<>>, <<E(100, 20), E(110, 20), E(120, 20)>>)
\* elements at 16, 18 and 16px
PageAdequateText == Document(<<>>, <<E(160, 20), E(180, 20), E(160, 20)>>)
\* a visible main container at 15px; small text elsewhere in the body
PageAtThreshold ==
    Document(<<Container(TRUE, <<E(150, 30)>>)>>, <<E(100, 50), E(150, 30)>>)
\* a hidden container; the body's elements are empty, too short or invisible
PageNoContent ==
    Document(<<Container(FALSE, <<E(100, 20)>>)>>,
             <<E(100, 0), E(100, 5), Element(100, 20, FALSE, FALSE)>>)
\* qualifying elements whose font size is not positive or cannot be read
PageUnmeasurable ==
    Document(<<>>, <<Element(0, 20, TRUE, FALSE), Element(100, 20, TRUE, TRUE)>>)
\* more qualifying elements than the sampling cap: 16px is predominant among the
\* first three, the one beyond the cap would make 13.5px predominant
PageLong == Document(<<>>, <<E(160, 10), E(160, 10), E(135, 15), E(135, 30)>>)

Pages ==
    {PageSmallText, PageAdequateText, PageAtThreshold, PageNoContent,
     PageUnmeasurable, PageLong}

\* zoom factors the user may have set for the tab before the page loads
UserZooms == {1000, 1200, 1600}

\* what chrome.storage.sync holds at startup
StoredSettings == {DEFAULT_CONFIG}

\* the settings field of settingsUpdated messages
SettingsInputs == {Settings(Num(100), Undefined), NoSettings}

ContentActions == {"settingsUpdated", "reanalyze", "bogus"}

Init ==
    /\ tabZoom \in UserZooms
    /\ zoomRecord = NoRecord
    /\ msg = [r \in Requester |-> NoMsg]
    /\ conv = [r \in Requester |-> NoConv]
    /\ resp = [r \in Requester |-> NoResp]
    /\ track = [r \in Requester |-> NoTrack]
    /\ envAwait = [r \in Requester |-> FALSE]
    /\ page \in Pages
    /\ readyState = "loading"
    /\ boot = NotBooted
    /\ timers = NoTimers
    /\ marker \in {"none", "processed", "zoomed"}
    /\ config = DEFAULT_CONFIG
    /\ pass = [p \in Pass |-> IdlePass]
    /\ button = NoButton
    /\ received = 0
    /\ handled = "none"
    /\ reply = NoResp
    /\ calc = NoCalc

Next ==
    \/ \E settings \in StoredSettings, failed \in BOOLEAN : Bootstrap(settings, failed)
    \/ DOMContentLoaded
    \/ WindowLoad
    \/ /\ received < MaxMessages
       /\ \E action \in ContentActions, settings \in SettingsInputs :
             ContentHandleMessage(action, settings)
    \/ \E p \in Pass, delay \in Delays : AnalysisTimerFires(p, delay)
    \/ \E p \in Pass : BatchTimerFires(p)
    \/ \E r \in Requester, how \in {"lastError", "noResponse"} : ChannelFails(r, how)
    \/ \E p \in Pass : ContentGetZoomCallback(p)
    \/ \E p \in Pass : ContentSetZoomCallback(p)
    \/ ResetClick
    \/ ResetCallback
    \/ BgStep

Spec == Init /\ [][Next]_vars

----------------------------------------------------------------------------
(* Histogram computations on their own: analyzeTextSizes over any short list *)
(* of elements in two orders (SpecHist), and calculatePredominantSize over   *)
(* any small histogram (SpecCalc).                                           *)

\* elements measured by one computation
MaxMeasured == 3
\* properties of a histogram given to calculatePredominantSize, and their weights
MaxBuckets == 3
MaxWeight == 2

\* font sizes of the elements: 12px, 16px, 13.5px and 14.5px
MeasuredSizes == {120, 160, 135, 145}

\* an element of 10 characters at each size, one of 20 characters, one whose
\* font size does not parse to a positive number, one whose trimmed text is
\* empty and one whose measurement throws
MeasuredElements ==
    {E(fontSize, 10) : fontSize \in MeasuredSizes}
       \cup {E(135, 20), E(0, 10), E(160, 0), Element(120, 10, TRUE, TRUE)}

Reordered(elements, f) == [i \in 1..Len(elements) |-> elements[f[i]]]

\* the histograms of the unit tests of calculatePredominantSize
ExampleHistograms ==
    { <<Property(<<12>>, 100), Property(<<16>>, 300), Property(<<24>>, 50)>>,
      <<Property(<<18>>, 200)>> }

\* objects with up to MaxBuckets properties, in every creation order
Histograms ==
    UNION { { [i \in 1..n |-> Property(ToKey(sizes[i]), weights[i])] :
                sizes \in {f \in [1..n -> MeasuredSizes] :
                              \A i, j \in 1..n : f[i] = f[j] => i = j},
                weights \in [1..n -> 0..MaxWeight] } : n \in 0..MaxBuckets }

Quiet ==
    /\ tabZoom = NATURAL_ZOOM
    /\ zoomRecord = NoRecord
    /\ msg = [r \in Requester |-> NoMsg]
    /\ conv = [r \in Requester |-> NoConv]
    /\ resp = [r \in Requester |-> NoResp]
    /\ track = [r \in Requester |-> NoTrack]
    /\ envAwait = [r \in Requester |-> FALSE]
    /\ page = PageNoContent
    /\ readyState = "complete"
    /\ boot = NotBooted
    /\ timers = NoTimers
    /\ marker = "none"
    /\ config = DEFAULT_CONFIG
    /\ pass = [p \in Pass |-> IdlePass]
    /\ button = NoButton
    /\ received = 0
    /\ handled = "none"
    /\ reply = NoResp

HistInit ==
    /\ Quiet
    /\ \E n \in 1..MaxMeasured :
          \E elements \in [1..n -> MeasuredElements], f \in Permutations(1..n) :
              calc = Calc("measuring", elements, Reordered(elements, f), <<>>, <<>>)

\* analyzeTextSizes: one call of processBatch, on each order of the elements
HistBatch ==
    /\ calc.st = "measuring"
    /\ LET batch == processBatch(calc.elements, calc.processedCount, calc.fontSizes)
           otherBatch == processBatch(calc.other, calc.processedCount, calc.otherFontSizes)
       IN  calc' = [calc EXCEPT
                      !.processedCount = batch.processedCount,
                      !.fontSizes = batch.fontSizes,
                      !.otherFontSizes = otherBatch.fontSizes,
                      !.st = IF batch.processedCount < Len(calc.elements)
                               THEN "measuring" ELSE "measured"]
    /\ UNCHANGED <<bgVars, page, readyState, boot, timers, marker, config, pass,
                   button, received, handled, reply>>

\* analyzeAndZoom: calculatePredominantSize(fontSizes)
Resolve ==
    /\ calc.st = "measured"
    /\ calc' = [calc EXCEPT
                  !.st = "resolved",
                  !.result = calculatePredominantSize(calc.fontSizes),
                  !.otherResult = calculatePredominantSize(calc.otherFontSizes)]
    /\ UNCHANGED <<bgVars, page, readyState, boot, timers, marker, config, pass,
                   button, received, handled, reply>>

\* candidates getTextElements is given
MaxCandidates == 4

\* candidates with a box and a trimmed text of 0, 5, 9, 10, 37 or 38 characters,
\* and candidates with 38 characters and no width, no height, or neither
CandidateElements ==
    {Box(120, textLength, 100, 20, FALSE) : textLength \in {0, 5, 9, 10, 37, 38}}
        \cup {Box(120, 38, 0, 20, FALSE), Box(120, 38, 100, 0, FALSE),
              Box(120, 38, 0, 0, FALSE)}

TextInit ==
    /\ Quiet
    /\ \E n \in 0..MaxCandidates :
          \E elements \in [1..n -> CandidateElements] :
              calc = Calc("candidates", elements, <<>>, <<>>, <<>>)

\* analyzeAndZoom: getTextElements(container), kept in calc.other
FilterText ==
    /\ calc.st = "candidates"
    /\ calc' = [calc EXCEPT !.st = "filtered", !.other = getTextElements(calc.elements)]
    /\ UNCHANGED <<bgVars, page, readyState, boot, timers, marker, config, pass,
                   button, received, handled, reply>>

TextNext == FilterText

SpecText == TextInit /\ [][TextNext]_vars

HistNext == HistBatch \/ Resolve

SpecHist == HistInit /\ [][HistNext]_vars

CalcInit ==
    /\ Quiet
    /\ calc \in { Calc("measured", <<>>, <<>>, fontSizes, fontSizes) :
                     fontSizes \in Histograms \cup ExampleHistograms }

CalcNext == Resolve

SpecCalc == CalcInit /\ [][CalcNext]_vars

----------------------------------------------------------------------------
(* Claims about the content script's analysis passes (Spec) *)

\* a step in which a timer set by scheduleAnalysis fires and calls analyzeAndZoom
AnalysisStarts ==
    \E delay \in Delays :
        timers[delay] > 0 /\ timers' = [timers EXCEPT ![delay] = @ - 1]

\* C1: when a marker for the domain exists as analyzeAndZoom starts, in either
\* value, the call measures no element (no pass begins and none advances),
\* sends no message, injects no reset control and leaves the marker as it is;
\* this holds of every call.
C1_MarkerShortCircuits ==
    [][(AnalysisStarts /\ marker \in {"processed", "zoomed"})
          => /\ marker' = marker
             /\ pass' = pass
             /\ msg' = msg
             /\ button' = button
             /\ tabZoom' = tabZoom]_vars

\* C1 witness: on the small-text page at natural zoom, loaded with the marker
\* "processed" already present, both timers of the load sequence have fired and
\* nothing was measured, sent or injected.
C1_Witness ==
    /\ page = PageSmallText
    /\ tabZoom = NATURAL_ZOOM
    /\ marker = "processed"
    /\ boot = [st |-> "done", dcl |-> TRUE, load |-> TRUE]
    /\ readyState = "complete"
    /\ timers = NoTimers
    /\ received = 0
    /\ zoomRecord = NoRecord
    /\ ~button.present
    /\ \A p \in Pass : pass[p] = IdlePass

\* a step in which getCurrentZoom's callback runs for pass p with a getZoom
\* response that reports success
GetZoomAnswered(p) ==
    /\ pass[p].pc = "getZoom"
    /\ pass'[p].pc # "getZoom"
    /\ resp[p].st = "response"
    /\ resp[p].success

C3_NeverOverridesUserZoom ==
    [][\A p \in Pass :
          (GetZoomAnswered(p) /\ resp[p].zoomLevel # NATURAL_ZOOM)
          => msg'[p] = NoMsg]_vars

\* the predominant size of the elements a pass over the page measures
PagePredominantSize ==
    LET elements == elementsToAnalyze(page)
    IN  calculatePredominantSize(measureRange(<<>>, elements, 1, Len(elements)))

\* a step in which pass p finishes measuring (or finds nothing to measure) and
\* the zoom decision on the predominant size is taken
Decides(p) ==
    \/ pass[p].pc = "batch" /\ pass'[p].pc # "batch"
    \/ AnalysisStarts /\ marker = "none" /\ FreeSlot(p) /\ pass'[p].pc # "batch"

----------------------------------------------------------------------------
(* Handler-level specification of the background script: any sender, any    *)
(* message.                                                                 *)

\* zoom factors the tab may have when a request arrives
StartZooms == {270, 1000, 4970}

\* zoomLevel fields of the setZoom messages sent to the handler
ZoomLevelInputs ==
    {Num(0), Num(100), Num(250), Num(1000), Num(1005), Num(1010), Num(1055),
     Num(1350), Num(5000),
     Num(10000), NaN, Str(1500), Undefined}

ActionInputs == {"setZoom", "getZoom", "bogus"}

BgInit ==
    /\ tabZoom \in StartZooms
    /\ zoomRecord = NoRecord
    /\ msg = [r \in Requester |-> NoMsg]
    /\ conv = [r \in Requester |-> NoConv]
    /\ resp = [r \in Requester |-> NoResp]
    /\ track = [r \in Requester |-> NoTrack]
    /\ envAwait = [r \in Requester |-> FALSE]
    /\ page = PageNoContent
    /\ readyState = "complete"
    /\ boot = NotBooted
    /\ timers = NoTimers
    /\ marker = "none"
    /\ config = DEFAULT_CONFIG
    /\ pass = [p \in Pass |-> IdlePass]
    /\ button = NoButton
    /\ received = 0
    /\ handled = "none"
    /\ reply = NoResp
    /\ calc = NoCalc

\* a sender sends a message and waits for its callback
EnvSend(r, action, zoomLevel, tabOk) ==
    /\ ~envAwait[r]
    /\ envAwait' = [envAwait EXCEPT ![r] = TRUE]
    /\ msg' = [msg EXCEPT ![r] = Message(action, zoomLevel, tabOk)]
    /\ UNCHANGED <<tabZoom, zoomRecord, conv, resp, track, contentVars>>

\* the sender's callback runs with the response
EnvReceive(r) ==
    /\ envAwait[r]
    /\ resp[r].st # "none"
    /\ envAwait' = [envAwait EXCEPT ![r] = FALSE]
    /\ resp' = [resp EXCEPT ![r] = NoResp]
    /\ track' = [track EXCEPT ![r] = NoTrack]
    /\ UNCHANGED <<tabZoom, zoomRecord, msg, conv, contentVars>>

BgNext ==
    \/ \E r \in {ResetRequester}, a \in ActionInputs, z \in ZoomLevelInputs, ok \in BOOLEAN :
          EnvSend(r, a, z, ok)
    \/ \E r \in Requester : EnvReceive(r)
    \/ BgStep

SpecBg == BgInit /\ [][BgNext]_vars

----------------------------------------------------------------------------
(* Claims about the background script's convergence engine (SpecBg) *)

\* a request for a numeric target that the engine worked on without any other
\* request writing the tab's zoom
Undisturbed(r) == track[r].target.t = "number" /\ track[r].alone

\* C5 (as stated): with no provider error and no other writer, whenever start
\* and target differ by at least the tolerance, the last value the provider
\* applied for a request answered with success is exactly the target.
C5_LastAppliedIsTarget ==
    \A r \in Requester :
        (Undisturbed(r) /\ track[r].outcome = "success" /\ track[r].lastSet # 0)
            => track[r].lastSet = track[r].target.v

\* C5 (amended): with no provider error and no other writer, each incremental
\* value passed to the provider's setZoom lies strictly beyond the previous one
\* in the stepping direction, and the last value applied for a request answered
\* with success is the target exactly, or else an incremental value less than
\* the tolerance away from the target (1.0 to 1.35 ends on exactly 1.35;
\* 1.0 to 1.055 ends on 1.05).
C5_MonotonicWithinTolerance ==
    \A r \in Requester :
        Undisturbed(r) =>
            /\ (conv[r].pc = "setZoom" /\ track[r].lastStep # 0) =>
                  IF conv[r].isZoomingIn
                    THEN conv[r].nextZoom > track[r].lastStep
                    ELSE conv[r].nextZoom < track[r].lastStep
            /\ (conv[r].pc = "setZoom" /\ track[r].lastStep = 0) =>
                  IF conv[r].isZoomingIn
                    THEN conv[r].nextZoom > track[r].start
                    ELSE conv[r].nextZoom < track[r].start
            /\ (track[r].outcome = "success" /\ track[r].lastSet # 0) =>
                  \/ track[r].lastSet = track[r].target.v
                  \/ /\ track[r].lastSet = track[r].lastStep
                     /\ track[r].lastSet - track[r].target.v < ZOOM_TOLERANCE
                     /\ track[r].target.v - track[r].lastSet < ZOOM_TOLERANCE
            /\ (track[r].start = NATURAL_ZOOM /\ track[r].target.v = 1350
                  /\ track[r].outcome = "success") => track[r].lastSet = 1350

\* C5 witness: a request from 1.0 to 1.35 was answered with success after the
\* incremental value 1.35 and the final exact-set.
C5_Witness ==
    \E r \in Requester :
        /\ Undisturbed(r)
        /\ track[r].outcome = "success"
        /\ track[r].start = NATURAL_ZOOM
        /\ track[r].target = Num(1350)
        /\ track[r].lastStep = 1350
        /\ track[r].lastSet = 1350
        /\ tabZoom = 1350

\* the zoom levels C6 says are rejected: not a number, NaN, or a number
\* outside [0.25, 5.0] (non-positive ones included)
C6_MustReject(zoomLevel) ==
    \/ zoomLevel.t # "number"
    \/ zoomLevel.v < ZOOM_BOUNDS_min
    \/ zoomLevel.v > ZOOM_BOUNDS_max

\* C6: a setZoom request whose zoomLevel is not a number, is NaN or non-positive,
\* or lies outside [0.25, 5.0] is answered with a failure response carrying an
\* error, and causes no provider call and no stored zoom record.
C6_InvalidZoomLevelRejected ==
    [][\A r \in Requester :
          (/\ msg[r].st = "sent"
           /\ msg'[r].st = "none"
           /\ msg[r].tabOk
           /\ msg[r].action = "setZoom"
           /\ C6_MustReject(msg[r].zoomLevel))
          => /\ resp'[r].st = "response"
             /\ ~resp'[r].success
             /\ resp'[r].error # "none"
             /\ conv'[r].pc = "none"
             /\ tabZoom' = tabZoom
             /\ zoomRecord' = zoomRecord]_vars

\* C7: every value passed to the provider's setZoom, incremental or final, lies
\* within [0.25, 5.0].
C7_ZoomWithinBounds ==
    \A r \in Requester :
        /\ conv[r].pc = "setZoom" =>
              (conv[r].nextZoom >= ZOOM_BOUNDS_min /\ conv[r].nextZoom <= ZOOM_BOUNDS_max)
        /\ conv[r].pc = "final" =>
              /\ conv[r].targetZoom.t = "number"
              /\ conv[r].targetZoom.v >= ZOOM_BOUNDS_min
              /\ conv[r].targetZoom.v <= ZOOM_BOUNDS_max
        /\ track[r].lastSet # 0 =>
              (track[r].lastSet >= ZOOM_BOUNDS_min /\ track[r].lastSet <= ZOOM_BOUNDS_max)

\* C7 witness: a step up from a zoom less than one increment below the upper
\* bound was clamped to 5.0 and is about to be applied.
C7_Witness ==
    \E r \in Requester :
        /\ conv[r].pc = "setZoom"
        /\ conv[r].isZoomingIn
        /\ tabZoom + ZOOM_INCREMENT > ZOOM_BOUNDS_max
        /\ conv[r].nextZoom = ZOOM_BOUNDS_max

----------------------------------------------------------------------------
(* Claims about the histogram and its resolution (SpecCalc, SpecHist) *)

\* C8: for every histogram, calculatePredominantSize returns 0 exactly when no
\* property has a positive weight, and otherwise a size that is a key of the
\* histogram and whose weight is the maximum over all keys; {12:100, 16:300,
\* 24:50} gives 16, {} gives 0 and {18:200} gives 18.
C8_PredominantHasMaximumWeight ==
    calc.st = "resolved" =>
        LET obj == calc.fontSizes
            positive == \E i \in 1..Len(obj) : obj[i].weight > 0
        IN  /\ (calc.result = 0) <=> ~positive
            /\ positive =>
                  \E i \in 1..Len(obj) :
                      /\ obj[i].key = ToKey(calc.result)
                      /\ \A j \in 1..Len(obj) : obj[j].weight <= obj[i].weight
            /\ (obj = <<Property(<<12>>, 100), Property(<<16>>, 300), Property(<<24>>, 50)>>)
                  => calc.result = 160
            /\ (obj = <<Property(<<18>>, 200)>>) => calc.result = 180
            /\ (obj = <<>>) => calc.result = 0

\* C8 witness: the histogram {12:100, 16:300, 24:50} was resolved to 16.
C8_Witness ==
    /\ calc.st = "resolved"
    /\ calc.fontSizes = <<Property(<<12>>, 100), Property(<<16>>, 300), Property(<<24>>, 50)>>
    /\ calc.result = 160

\* an element that adds to the histogram
Measurable(element) == element.fontSize > 0 /\ element.textLength > 0 /\ ~element.throws

\* the weight the elements accumulate for a font size
RECURSIVE AccumulatedWeight(_, _)
AccumulatedWeight(elements, fontSize) ==
    IF elements = <<>> THEN 0
    ELSE AccumulatedWeight(Tail(elements), fontSize)
            + (IF Measurable(Head(elements)) /\ Head(elements).fontSize = fontSize
                 THEN Head(elements).textLength ELSE 0)

SizesSeen(elements) ==
    {elements[i].fontSize : i \in {j \in 1..Len(elements) : Measurable(elements[j])}}

\* the font sizes that share the maximum accumulated weight
HeaviestSizes(elements) ==
    {s \in SizesSeen(elements) :
        \A t \in SizesSeen(elements) :
            AccumulatedWeight(elements, t) <= AccumulatedWeight(elements, s)}

\* the position of the element that created the bucket of a font size
FirstSeenAt(elements, fontSize) ==
    CHOOSE i \in 1..Len(elements) :
        /\ Measurable(elements[i]) /\ elements[i].fontSize = fontSize
        /\ \A j \in 1..(i - 1) : ~(Measurable(elements[j]) /\ elements[j].fontSize = fontSize)

\* among the sizes, the one whose bucket was inserted first
FirstInserted(elements, sizes) ==
    CHOOSE s \in sizes :
        \A t \in sizes : FirstSeenAt(elements, s) <= FirstSeenAt(elements, t)

IntegerValued(sizes) == {s \in sizes : s % 10 = 0}

Least(sizes) == CHOOSE s \in sizes : \A t \in sizes : s <= t

\* C9 (as stated): when font sizes share the maximum accumulated weight, the
\* predominant size is the one whose bucket was inserted first, integer-valued
\* sizes inserted in descending order included.
C9_FirstInsertedWins ==
    (calc.st = "resolved" /\ HeaviestSizes(calc.elements) # {})
        => calc.result = FirstInserted(calc.elements, HeaviestSizes(calc.elements))

\* C9 (amended): when font sizes share the maximum accumulated weight, the
\* predominant size is the first of them in the enumeration order of the
\* histogram's keys: the least integer-valued one if any of them is
\* integer-valued, otherwise the one whose bucket was inserted first.
C9_FirstEnumeratedWins ==
    (calc.st = "resolved" /\ HeaviestSizes(calc.elements) # {})
        => LET heaviest == HeaviestSizes(calc.elements)
           IN  calc.result =
                  IF IntegerValued(heaviest) # {}
                    THEN Least(IntegerValued(heaviest))
                    ELSE FirstInserted(calc.elements, heaviest)

\* C9 witness: 16px then 12px were measured with equal weight and 12 was returned.
C9_Witness ==
    /\ calc.st = "resolved"
    /\ calc.elements = <<E(160, 10), E(120, 10)>>
    /\ calc.result = 120

\* C10 (as stated): the predominant size is the same for every order in which
\* the elements are measured, ties and fractional sizes included.
C10_OrderIndependent ==
    calc.st = "resolved" => calc.result = calc.otherResult

\* C10 (amended): the predominant size is the same for every order in which the
\* elements are measured whenever one size alone has the maximum weight or one
\* of the sizes tied for it is integer-valued; when only fractional sizes tie,
\* each order returns the tied size it measured first.
C10_OrderIndependentUnlessFractionalTie ==
    calc.st = "resolved" =>
        LET heaviest == HeaviestSizes(calc.elements)
        IN  /\ (Cardinality(heaviest) <= 1 \/ IntegerValued(heaviest) # {})
                  => calc.result = calc.otherResult
            /\ (Cardinality(heaviest) > 1 /\ IntegerValued(heaviest) = {})
                  => /\ calc.result = FirstInserted(calc.elements, heaviest)
                     /\ calc.otherResult = FirstInserted(calc.other, heaviest)

\* C10 witness: 13.5px and 12px tie for the maximum weight, were measured in
\* both orders, and both orders returned 12.
C10_Witness ==
    /\ calc.st = "resolved"
    /\ calc.elements = <<E(135, 10), E(120, 10)>>
    /\ calc.other = <<E(120, 10), E(135, 10)>>
    /\ calc.result = 120
    /\ calc.otherResult = 120

----------------------------------------------------------------------------
(* Claims about the selection of text elements (SpecText) *)

\* an element C11 says is selected
C11_Selected(element) ==
    /\ element.textLength >= 10
    /\ element.offsetWidth # 0
    /\ element.offsetHeight # 0

\* the selected elements of a list, in the order of the list
RECURSIVE C11_Expected(_)
C11_Expected(elements) ==
    IF elements = <<>> THEN <<>>
    ELSE (IF C11_Selected(Head(elements)) THEN <<Head(elements)>> ELSE <<>>)
            \o C11_Expected(Tail(elements))

\* C11: getTextElements returns exactly the candidates whose trimmed text has
\* at least 10 characters and whose offsetWidth and offsetHeight are non-zero,
\* in document order; candidates with empty or shorter text or with no rendered
\* size are never among them.
C11_FilteringCorrect ==
    calc.st = "filtered" =>
        /\ calc.other = C11_Expected(calc.elements)
        /\ \A i \in 1..Len(calc.other) :
              /\ calc.other[i].textLength >= 10
              /\ calc.other[i].offsetWidth > 0
              /\ calc.other[i].offsetHeight > 0

\* C11 witness: the four candidates of the unit test ("Short", a text of 38
\* characters, an empty text, a text of 37 characters) were filtered to the
\* second and the fourth.
C11_Witness ==
    /\ calc.st = "filtered"
    /\ calc.elements = <<Box(120, 5, 100, 20, FALSE), Box(120, 38, 100, 20, FALSE),
                         Box(120, 0, 100, 20, FALSE), Box(120, 37, 100, 20, FALSE)>>
    /\ calc.other = <<Box(120, 38, 100, 20, FALSE), Box(120, 37, 100, 20, FALSE)>>

----------------------------------------------------------------------------
(* Claims about failures and the reset control (Spec) *)

\* a step in which pass p's setZoom callback runs
SetZoomAnswered(p) ==
    /\ pass[p].pc = "setZoom"
    /\ pass'[p].pc # "setZoom"

\* the response object reports success (response?.success)
AnsweredWithSuccess(response) ==
    response.st = "response" /\ response.success

\* C12: the marker "zoomed" is written and the reset control injected only in
\* the step in which a pass's setZoom request is answered with success; when the
\* request is answered with a failure response, a runtime error or no response
\* object, the pass ends with the marker and the control as they were and sends
\* nothing more.
C12_MarkerOnlyAfterConvergence ==
    [][/\ \A p \in Pass :
             SetZoomAnswered(p) =>
                /\ pass'[p] = IdlePass
                /\ msg'[p] = NoMsg
                /\ IF AnsweredWithSuccess(resp[p])
                     THEN /\ marker' = "zoomed"
                          /\ button'.present
                          /\ ~button'.disabled \/ button' = button
                     ELSE /\ marker' = marker
                          /\ button' = button
       /\ (marker' = "zoomed" /\ marker # "zoomed") =>
             \E p \in Pass : SetZoomAnswered(p) /\ AnsweredWithSuccess(resp[p])
       /\ (button'.present /\ ~button.present) =>
             \E p \in Pass : SetZoomAnswered(p) /\ AnsweredWithSuccess(resp[p])]_vars

\* C12 witness: on the small-text page the convergence towards 1.35 stopped
\* half-way with an error (the tab is left at 1.1): every pass has ended, there
\* is no marker and no reset control.
C12_Witness ==
    /\ page = PageSmallText
    /\ tabZoom = 1100
    /\ marker = "none"
    /\ ~button.present
    /\ received = 0
    /\ \A p \in Pass : pass[p] = IdlePass
    /\ \A r \in Requester : msg[r] = NoMsg /\ conv[r] = NoConv /\ resp[r] = NoResp

\* a step in which pass p's getZoom callback runs on a runtime error, on no
\* response object or on a response whose success is false
GetZoomFailed(p) ==
    /\ pass[p].pc = "getZoom"
    /\ pass'[p].pc # "getZoom"
    /\ ~AnsweredWithSuccess(resp[p])

\* C13: when getZoom is answered with a runtime error, with no response object
\* or with success false, the pass ends there: it sends no setZoom, leaves the
\* marker and the reset control as they were, and returns normally. A missing
\* response is not read as zoom 1.0.
C13_GetZoomFailureStopsPass ==
    [][\A p \in Pass :
          GetZoomFailed(p) =>
             /\ pass'[p] = IdlePass
             /\ msg'[p] = NoMsg
             /\ marker' = marker
             /\ button' = button
             /\ tabZoom' = tabZoom]_vars

\* C13 witness: the small-text page opened at zoom 1.6, where an answered
\* getZoom always ends in the marker "processed": both load-time analyses have
\* run and ended, and there is still no marker, so getZoom failed each time.
C13_Witness ==
    /\ page = PageSmallText
    /\ tabZoom = 1600
    /\ marker = "none"
    /\ ~button.present
    /\ received = 0
    /\ timers = NoTimers
    /\ boot.st = "done"
    /\ readyState = "complete"
    /\ \A p \in Pass : pass[p] = IdlePass
    /\ \A r \in Requester : msg[r] = NoMsg /\ conv[r] = NoConv /\ resp[r] = NoResp

\* C14: a pass that got past the marker check and ends without a usable signal
\* (no candidate element, or predominant size 0) writes the marker "processed".
C14_NoSignalMarksProcessed ==
    [][\A p \in Pass :
          (Decides(p) /\ PagePredominantSize = 0) => marker' = "processed"]_vars

\* a step in which the reset control is activated
ResetActivated ==
    /\ button.present
    /\ ~button.disabled
    /\ button'.present
    /\ button'.disabled

\* a step in which the callback of the reset's setZoom request runs
ResetAnswered ==
    /\ button.present
    /\ button.disabled
    /\ resp[ResetRequester].st # "none"
    /\ resp'[ResetRequester].st = "none"

\* C15: activating the reset control disables it and sends one setZoom request
\* with target 1.0, and the control sends nothing otherwise; when that request
\* is answered with success the marker is removed and the control is removed
\* from the page.
C15_ResetSuccess ==
    [][/\ ResetActivated =>
             /\ msg[ResetRequester] = NoMsg
             /\ msg'[ResetRequester] = Message("setZoom", Num(NATURAL_ZOOM), TRUE)
       /\ (msg'[ResetRequester] # msg[ResetRequester] /\ msg'[ResetRequester].st = "sent")
             => ResetActivated
       /\ (ResetAnswered /\ AnsweredWithSuccess(resp[ResetRequester])) =>
             /\ marker' = "none"
             /\ button' = NoButton]_vars

\* C15 witness: the small-text page was zoomed and then reset: the tab is back
\* at 1.0, the background recorded 1.0 for it, the marker and the control are
\* gone and nothing is in flight.
C15_Witness ==
    /\ page = PageSmallText
    /\ tabZoom = NATURAL_ZOOM
    /\ zoomRecord = storeZoomLevel(NoRecord, TabId, Num(NATURAL_ZOOM))
    /\ marker = "none"
    /\ button = NoButton
    /\ \A p \in Pass : pass[p] = IdlePass
    /\ \A r \in Requester : msg[r] = NoMsg /\ conv[r] = NoConv /\ resp[r] = NoResp

\* the reset's setZoom request is in flight: sent, in the engine, or answered
\* with the callback still to run
ResetInFlight ==
    \/ msg[ResetRequester] # NoMsg
    \/ conv[ResetRequester] # NoConv
    \/ resp[ResetRequester] # NoResp

\* C16: when the reset's setZoom request is answered with a failure response, a
\* runtime error or no response object, the control stays on the page, enabled
\* again with the label "Reset Zoom", and the marker is unchanged; while the
\* request is in flight the control is present and disabled, so a second reset
\* request cannot be sent before the first one ended.
C16_ResetFailureReenables ==
    /\ [](ResetInFlight => button.present /\ button.disabled)
    /\ [][/\ (ResetAnswered /\ ~AnsweredWithSuccess(resp[ResetRequester])) =>
                /\ button' = [present |-> TRUE, disabled |-> FALSE, label |-> "Reset Zoom", controls |-> 1]
                /\ marker' = marker
          /\ ResetActivated => ~ResetInFlight]_vars

\* C16 witness: the page was zoomed to 1.35 and a reset failed half-way: the tab
\* is at 1.2, the control is on the page, enabled, with its default label, the
\* marker "zoomed" is still there and no reset request is in flight.
C16_Witness ==
    /\ tabZoom = 1200
    /\ marker = "zoomed"
    /\ button = [present |-> TRUE, disabled |-> FALSE, label |-> "Reset Zoom", controls |-> 1]
    /\ ~ResetInFlight
    /\ received = 0
    /\ \A p \in Pass : pass[p] = IdlePass

----------------------------------------------------------------------------
(* Claims about concurrent passes and messages (Spec) *)

\* a step in which the content script accepts a settingsUpdated or reanalyze
\* message
MessageAccepted ==
    /\ received' = received + 1
    /\ reply' = Success

\* a step in which the analysis a message scheduled starts
MessageAnalysisStarts ==
    timers'[MESSAGE_DELAY] = timers[MESSAGE_DELAY] - 1

\* C17: each accepted settingsUpdated or reanalyze message removes the marker
\* and schedules an analysis after 500 ms, and when that analysis starts there
\* is no marker to short-circuit it.
C17_MessageAnalysisIsFresh ==
    [][/\ MessageAccepted =>
             /\ marker' = "none"
             /\ timers' = scheduleAnalysis(timers, MESSAGE_DELAY)
       /\ MessageAnalysisStarts => ~hasMarker(marker)]_vars

\* the requesters whose setZoom message has been sent and whose callback has
\* not run yet: passes awaiting applyZoom, and the reset control while disabled
ConvergenceInFlight ==
    {p \in Pass : pass[p].pc = "setZoom"}
       \cup (IF button.present /\ button.disabled THEN {ResetRequester} ELSE {})

\* C18: at most one setZoom request of the content script is in flight.
C18_NoConcurrentConvergence ==
    Cardinality(ConvergenceInFlight) <= 1

----------------------------------------------------------------------------
(* The two message listeners at handler level (SpecMsg): any sender sends any
   action to the background script, and the popup sends any action to the
   content script of a page that has a marker or not *)

\* messages the content script's listener handles in one burst
MaxBurst == 2

\* zoomLevel fields of the messages sent to the background script
MsgZoomLevelInputs == {Num(1100), Undefined}

\* the domain's marker when the content script's listener is called
MsgMarkers == {"none", "processed", "zoomed"}

MsgInit ==
    /\ tabZoom = NATURAL_ZOOM
    /\ zoomRecord = NoRecord
    /\ msg = [r \in Requester |-> NoMsg]
    /\ conv = [r \in Requester |-> NoConv]
    /\ resp = [r \in Requester |-> NoResp]
    /\ track = [r \in Requester |-> NoTrack]
    /\ envAwait = [r \in Requester |-> FALSE]
    /\ page = PageNoContent
    /\ readyState = "complete"
    /\ boot = NotBooted
    /\ timers = NoTimers
    /\ marker \in MsgMarkers
    /\ config = DEFAULT_CONFIG
    /\ pass = [p \in Pass |-> IdlePass]
    /\ button = NoButton
    /\ received = 0
    /\ handled = "none"
    /\ reply = NoResp
    /\ calc = NoCalc

MsgNext ==
    \/ \E a \in ActionInputs, z \in MsgZoomLevelInputs, ok \in BOOLEAN :
          EnvSend(ResetRequester, a, z, ok)
    \/ \E r \in Requester : EnvReceive(r)
    \/ BgStep
    \/ /\ received < MaxBurst
       /\ \E action \in ContentActions, settings \in SettingsInputs :
             ContentHandleMessage(action, settings)

SpecMsg == MsgInit /\ [][MsgNext]_vars

----------------------------------------------------------------------------
(* Claims about unknown actions (SpecMsg) *)

\* a step in which the background script's listener is called with a message of
\* requester r whose action it does not handle
BgUnknownAction(r) ==
    /\ msg[r].st = "sent"
    /\ msg'[r] = NoMsg
    /\ msg[r].action \notin {"setZoom", "getZoom"}

\* a step in which the content script's listener is called with a message
\* whose action it does not handle
ContentUnknownAction ==
    /\ received' = received + 1
    /\ handled' \notin {"settingsUpdated", "reanalyze"}

\* the step changes nothing but the messages and the answers
NoOtherEffect ==
    UNCHANGED <<tabZoom, zoomRecord, conv, marker, config, timers, pass, button>>

\* C19 as stated: a message whose action the receiving context does not handle
\* is answered with {success: false, error: "Unknown action"} and has no other
\* effect.
C19_UnknownActionAnswered ==
    [][/\ \A r \in Requester :
             BgUnknownAction(r) =>
                resp'[r] = Failure("Unknown action") /\ NoOtherEffect
       /\ ContentUnknownAction =>
             reply' = Failure("Unknown action") /\ NoOtherEffect]_vars

\* C19 amended: the background script answers "Unknown action" when the sender
\* has a tab id and "Invalid sender" when it has none, whatever the action; the
\* content script answers "Unknown action"; in each case nothing else changes.
C19_UnknownActionFromTab ==
    [][/\ \A r \in Requester :
             BgUnknownAction(r) =>
                /\ resp'[r] = IF msg[r].tabOk THEN Failure("Unknown action")
                                              ELSE Failure("Invalid sender")
                /\ NoOtherEffect
       /\ ContentUnknownAction =>
             reply' = Failure("Unknown action") /\ NoOtherEffect]_vars

\* C19 witness: both listeners have answered an unknown action with "Unknown
\* action": the tab's zoom, the marker "zoomed" and the configuration are as
\* they were and no analysis is scheduled.
C19_Witness ==
    /\ envAwait[ResetRequester]
    /\ resp[ResetRequester] = Failure("Unknown action")
    /\ handled = "bogus"
    /\ reply = Failure("Unknown action")
    /\ tabZoom = NATURAL_ZOOM
    /\ zoomRecord = NoRecord
    /\ marker = "zoomed"
    /\ config = DEFAULT_CONFIG
    /\ timers = NoTimers

----------------------------------------------------------------------------
(* Claims about the configuration a pass uses (Spec) *)

\* C20: the threshold a pass decides with and the target of its setZoom request
\* are the minFontSize and zoomLevel that were in effect when the pass started,
\* whatever settingsUpdated messages were handled while it was suspended.
C20_PassUsesStartConfig ==
    [][\A p \in Pass :
          /\ Decides(p) =>
                (pass'[p].pc = "getZoom"
                    <=> /\ 0 < PagePredominantSize
                        /\ PagePredominantSize < startedWith(p).minFontSize.v)
          /\ (msg'[p] # msg[p] /\ msg'[p].st = "sent" /\ msg'[p].action = "setZoom")
                => msg'[p].zoomLevel = startedWith(p).zoomLevel]_vars

----------------------------------------------------------------------------
(* The content script's configuration at handler level (SpecCfg): the settings
   store holds any values when the content script starts, and settingsUpdated
   messages carry any settings. calc holds what the store contains, whether
   reading it fails, and the settings of the messages to come. *)

\* VALIDATION_RULES of the settings panel (font sizes in tenths of a pixel)
VALIDATION_minFontSize_min == 20
VALIDATION_minFontSize_max == 240
VALIDATION_zoomLevel_min == 1000
VALIDATION_zoomLevel_max == 2000

\* the store holds no value for either key
EmptyStore == [minFontSize |-> Undefined, zoomLevel |-> Undefined]

\* chrome.storage.sync.get({minFontSize: 15, zoomLevel: 1.35}): the stored
\* value of each key, the given default for a key the store does not hold
storageSyncGet(store) ==
    [minFontSize |-> IF store.minFontSize.t = "undefined"
                       THEN DEFAULT_CONFIG.minFontSize ELSE store.minFontSize,
     zoomLevel |-> IF store.zoomLevel.t = "undefined"
                     THEN DEFAULT_CONFIG.zoomLevel ELSE store.zoomLevel]

\* minFontSize values: absent, 12px, 0, -5px, 30px, the string "12"
CfgMinFontSizes == {Undefined, Num(120), Num(0), Num(-50), Num(300), Str(120)}

\* zoomLevel values: absent, 1.5, 0, 3.0
CfgZoomLevels == {Undefined, Num(1500), Num(0), Num(3000)}

CfgStores ==
    {[minFontSize |-> m, zoomLevel |-> z] : m \in CfgMinFontSizes, z \in CfgZoomLevels}

\* the settings field of a settingsUpdated message
CfgSettings ==
    {Settings(m, z) : m \in CfgMinFontSizes, z \in CfgZoomLevels} \cup {NoSettings}

CfgInputs(store, failed, updates) ==
    [st |-> "settings", store |-> store, failed |-> failed, updates |-> updates]

CfgInit ==
    /\ tabZoom = NATURAL_ZOOM
    /\ zoomRecord = NoRecord
    /\ msg = [r \in Requester |-> NoMsg]
    /\ conv = [r \in Requester |-> NoConv]
    /\ resp = [r \in Requester |-> NoResp]
    /\ track = [r \in Requester |-> NoTrack]
    /\ envAwait = [r \in Requester |-> FALSE]
    /\ page = PageNoContent
    /\ readyState = "loading"
    /\ boot = NotBooted
    /\ timers = NoTimers
    /\ marker = "none"
    /\ config = DEFAULT_CONFIG
    /\ pass = [p \in Pass |-> IdlePass]
    /\ button = NoButton
    /\ received = 0
    /\ handled = "none"
    /\ reply = NoResp
    /\ \E store \in CfgStores, failed \in BOOLEAN :
          \E updates \in [1..MaxMessages -> CfgSettings] :
             calc = CfgInputs(store, failed, updates)

CfgNext ==
    \/ Bootstrap(storageSyncGet(calc.store), calc.failed)
    \/ /\ received < Len(calc.updates)
       /\ ContentHandleMessage("settingsUpdated", calc.updates[received + 1])

SpecCfg == CfgInit /\ [][CfgNext]_vars

----------------------------------------------------------------------------
(* Claims about the configuration's values (SpecCfg) *)

\* a minFontSize the settings panel accepts: a whole number of pixels in [2, 24]
AcceptableMinFontSize(x) ==
    /\ x.t = "number"
    /\ x.v % 10 = 0
    /\ VALIDATION_minFontSize_min <= x.v
    /\ x.v <= VALIDATION_minFontSize_max

\* a zoomLevel the settings panel accepts: a number in [1.0, 2.0]
AcceptableZoomLevel(x) ==
    /\ x.t = "number"
    /\ VALIDATION_zoomLevel_min <= x.v
    /\ x.v <= VALIDATION_zoomLevel_max

\* the configuration that results from supplied values when every absent or
\* invalid one is replaced by the built-in default
OrBuiltInDefaults(supplied) ==
    [minFontSize |-> IF AcceptableMinFontSize(supplied.minFontSize)
                       THEN supplied.minFontSize ELSE DEFAULT_CONFIG.minFontSize,
     zoomLevel |-> IF AcceptableZoomLevel(supplied.zoomLevel)
                     THEN supplied.zoomLevel ELSE DEFAULT_CONFIG.zoomLevel]

\* C21: when the settings have been loaded at startup, and when a settingsUpdated
\* message with a settings object has been handled, each field of the
\* configuration is the supplied value if that is valid and the built-in
\* default (15px, 1.35) otherwise; when loading fails the configuration is the
\* defaults.
C21_FallsBackToDefaults ==
    [][/\ (boot.st = "loading" /\ boot'.st = "done") =>
             config' = IF calc.failed THEN DEFAULT_CONFIG
                       ELSE OrBuiltInDefaults(calc.store)
       /\ (received' = received + 1 /\ calc.updates[received'].t = "object") =>
             config' = OrBuiltInDefaults(calc.updates[received'])]_vars

----------------------------------------------------------------------------
(* The settings panel, the settings store and the content script as a closed
   system (SpecPopup). calc holds the panel's form, the content of
   chrome.storage.sync, the settingsUpdated notifications sent to the tab and
   the number of saves. *)

\* calls of saveSettings in one run
MaxSaves == 2

\* the value of a form input: text that starts with a decimal number (an
\* optional sign, a whole part and a fraction in thousandths) or does not
Text(negative, whole, frac) ==
    [numeric |-> TRUE, negative |-> negative, whole |-> whole, frac |-> frac]
NoNumberText == [numeric |-> FALSE, negative |-> FALSE, whole |-> 0, frac |-> 0]

\* parseInt(text, 10) of the minFontSize input, in tenths of a pixel: the whole
\* part with its sign, NaN when the text does not start with a number
parseIntText(text) ==
    IF ~text.numeric THEN NaN
    ELSE Num((IF text.negative THEN -1 ELSE 1) * text.whole * 10)

\* parseFloat(text) of the zoomLevel input, in thousandths
parseFloatText(text) ==
    IF ~text.numeric THEN NaN
    ELSE Num((IF text.negative THEN -1 ELSE 1) * (text.whole * 1000 + text.frac))

\* parseInt(x, 10) of a number of pixels: its whole part (truncated towards 0)
parseIntNumber(x) ==
    IF x.t # "number" THEN NaN
    ELSE IF x.v >= 0 THEN Num((x.v \div 10) * 10)
    ELSE Num(-(((-x.v) \div 10) * 10))

\* parseFloat(x) of a number
parseFloatNumber(x) == IF x.t # "number" THEN NaN ELSE x

\* a variant of the font-size test without the upper bound
fontSizeRejectedBelowOnly(fontSize) ==
    fontSize.t = "NaN" \/ JsLt(fontSize, Num(VALIDATION_minFontSize_min))

\* validateSettings: isNaN(fontSize) || fontSize < min || fontSize > max
fontSizeRejected(fontSize) ==
    \/ fontSize.t = "NaN"
    \/ JsLt(fontSize, Num(VALIDATION_minFontSize_min))
    \/ JsGt(fontSize, Num(VALIDATION_minFontSize_max))

\* validateSettings: isNaN(zoomLevel) || zoomLevel < min || zoomLevel > max
zoomLevelRejected(zoomLevel) ==
    \/ zoomLevel.t = "NaN"
    \/ JsLt(zoomLevel, Num(VALIDATION_zoomLevel_min))
    \/ JsGt(zoomLevel, Num(VALIDATION_zoomLevel_max))

\* validateSettings
validateSettings(settings) ==
    LET fontSize == parseIntNumber(settings.minFontSize)
        zoomLevel == parseFloatNumber(settings.zoomLevel)
    IN  IF fontSizeRejected(fontSize) \/ zoomLevelRejected(zoomLevel)
          THEN [isValid |-> FALSE, settings |-> settings]
          ELSE [isValid |-> TRUE, settings |-> Settings(fontSize, zoomLevel)]

\* the form: the values of the inputs minFontSize and zoomLevel
Form(minFontSize, zoomLevel) == [minFontSize |-> minFontSize, zoomLevel |-> zoomLevel]

\* resetToDefaults: the inputs hold "15" and "1.35"
DefaultForm == Form(Text(FALSE, 15, 0), Text(FALSE, 1, 350))

\* texts of the minFontSize input: "15", "1", "24", "25", "12.7", "abc"
FormMinFontSizes ==
    {Text(FALSE, 15, 0), Text(FALSE, 1, 0), Text(FALSE, 24, 0), Text(FALSE, 25, 0),
     Text(FALSE, 12, 700), NoNumberText}

\* texts of the zoomLevel input: "1.35", "0.5", "2", "3.0", "-1.5", ""
FormZoomLevels ==
    {Text(FALSE, 1, 350), Text(FALSE, 0, 500), Text(FALSE, 2, 0), Text(FALSE, 3, 0),
     Text(TRUE, 1, 500), NoNumberText}

Popup(form, store, sent, saves) ==
    [st |-> "popup", form |-> form, store |-> store, sent |-> sent, saves |-> saves]

\* the settings saveSettings reads from the form
formSettings(form) ==
    Settings(parseIntText(form.minFontSize), parseFloatText(form.zoomLevel))

\* saveSettings on the given form: the store and the notifications afterwards.
\* Nothing is written when validation fails; nothing is sent when the write to
\* the store fails.
saveSettings(form, storeFails) ==
    LET validationResult == validateSettings(formSettings(form))
    IN  IF ~validationResult.isValid \/ storeFails
          THEN Popup(form, calc.store, calc.sent, calc.saves + 1)
          ELSE Popup(form,
                     [minFontSize |-> validationResult.settings.minFontSize,
                      zoomLevel |-> validationResult.settings.zoomLevel],
                     Append(calc.sent, validationResult.settings),
                     calc.saves + 1)

PopupFrame ==
    UNCHANGED <<bgVars, page, readyState, boot, timers, marker, config, pass,
                button, received, handled, reply>>

\* the user changes the inputs
PopupInput(minFontSize, zoomLevel) ==
    /\ calc' = [calc EXCEPT !.form = Form(minFontSize, zoomLevel)]
    /\ PopupFrame

\* saveSettings, from the save button, the keyboard or the debounce timer
SaveSettings(storeFails) ==
    /\ calc.saves < MaxSaves
    /\ calc' = saveSettings(calc.form, storeFails)
    /\ PopupFrame

\* resetSettings: resetToDefaults, then saveSettings
ResetSettings(storeFails) ==
    /\ calc.saves < MaxSaves
    /\ calc' = saveSettings(DefaultForm, storeFails)
    /\ PopupFrame

\* chrome.runtime.onInstalled of the background script
OnInstalled(reason) ==
    /\ calc' = IF reason = "install"
                 THEN [calc EXCEPT !.store = [minFontSize |-> Num(DEFAULT_minFontSize),
                                              zoomLevel |-> Num(DEFAULT_zoomLevel)]]
                 ELSE calc
    /\ PopupFrame

PopupInit ==
    /\ tabZoom = NATURAL_ZOOM
    /\ zoomRecord = NoRecord
    /\ msg = [r \in Requester |-> NoMsg]
    /\ conv = [r \in Requester |-> NoConv]
    /\ resp = [r \in Requester |-> NoResp]
    /\ track = [r \in Requester |-> NoTrack]
    /\ envAwait = [r \in Requester |-> FALSE]
    /\ page = PageNoContent
    /\ readyState = "loading"
    /\ boot = NotBooted
    /\ timers = NoTimers
    /\ marker = "none"
    /\ config = DEFAULT_CONFIG
    /\ pass = [p \in Pass |-> IdlePass]
    /\ button = NoButton
    /\ received = 0
    /\ handled = "none"
    /\ reply = NoResp
    /\ calc = Popup(DefaultForm, EmptyStore, <<>>, 0)

PopupNext ==
    \/ \E minFontSize \in FormMinFontSizes, zoomLevel \in FormZoomLevels :
          PopupInput(minFontSize, zoomLevel)
    \/ \E storeFails \in BOOLEAN : SaveSettings(storeFails)
    \/ \E storeFails \in BOOLEAN : ResetSettings(storeFails)
    \/ \E reason \in {"install", "update"} : OnInstalled(reason)
    \/ \E failed \in BOOLEAN : Bootstrap(storageSyncGet(calc.store), failed)
    \/ /\ received < Len(calc.sent)
       /\ ContentHandleMessage("settingsUpdated", calc.sent[received + 1])

SpecPopup == PopupInit /\ [][PopupNext]_vars

----------------------------------------------------------------------------
(* Claims about the settings panel (SpecPopup) *)

\* the form holds a minFontSize whose whole part is in [2, 24] and a zoomLevel
\* in [1.0, 2.0]
FormAccepted(form) ==
    /\ AcceptableMinFontSize(parseIntText(form.minFontSize))
    /\ AcceptableZoomLevel(parseFloatText(form.zoomLevel))

\* the settings are a whole minFontSize in [2, 24] and a zoomLevel in [1.0, 2.0]
SettingsWithinRanges(settings) ==
    /\ AcceptableMinFontSize(settings.minFontSize)
    /\ AcceptableZoomLevel(settings.zoomLevel)

\* a step in which saveSettings runs
Saves == calc'.saves = calc.saves + 1

\* C22: saveSettings writes the store and sends a settingsUpdated notification
\* only when the form's minFontSize is an integer in [2, 24] and its zoomLevel
\* a number in [1.0, 2.0], and what it writes and sends are those values; when
\* validation fails the store and the notifications are as before. Hence the
\* store holds no value or values within the ranges, every notification carries
\* values within the ranges, and so does the content script's configuration.
C22_OnlyValidatedSettings ==
    /\ [](/\ SettingsWithinRanges(config)
          /\ calc.store = EmptyStore \/ SettingsWithinRanges(calc.store)
          /\ \A i \in 1..Len(calc.sent) : SettingsWithinRanges(calc.sent[i]))
    /\ [][Saves =>
            /\ ~FormAccepted(calc'.form) =>
                  calc'.store = calc.store /\ calc'.sent = calc.sent
            /\ calc'.store # calc.store => calc'.sent # calc.sent
            /\ calc'.sent # calc.sent =>
                  /\ calc'.sent = Append(calc.sent, formSettings(calc'.form))
                  /\ calc'.store.minFontSize = parseIntText(calc'.form.minFontSize)
                  /\ calc'.store.zoomLevel = parseFloatText(calc'.form.zoomLevel)]_vars

\* C22 witness: the panel saved 24px and 2.0, the content script took them from
\* the notification, and a second save with 25px in the form was rejected: the
\* store and the configuration still hold 24px and 2.0.
C22_Witness ==
    /\ calc.saves = 2
    /\ calc.form = Form(Text(FALSE, 25, 0), Text(FALSE, 2, 0))
    /\ calc.store = [minFontSize |-> Num(240), zoomLevel |-> Num(2000)]
    /\ Len(calc.sent) = 1
    /\ received = 1
    /\ config = [minFontSize |-> Num(240), zoomLevel |-> Num(2000)]

----------------------------------------------------------------------------
(* One request to the background script, whose pending callbacks and timers
   eventually run (SpecConv) *)

ConvNext ==
    \/ \E a \in ActionInputs, z \in ZoomLevelInputs, ok \in BOOLEAN :
          EnvSend(ResetRequester, a, z, ok)
    \/ BgStep

SpecConv == BgInit /\ [][ConvNext]_vars /\ WF_vars(BgStep)

----------------------------------------------------------------------------
(* Claims about the convergence loop (SpecConv) *)

\* a target handleSetZoom accepts: a number in [0.25, 5.0]
AcceptedTarget(zoomLevel) ==
    /\ zoomLevel.t = "number"
    /\ ZOOM_BOUNDS_min <= zoomLevel.v
    /\ zoomLevel.v <= ZOOM_BOUNDS_max

\* ceil(|start - target| / 0.05)
StepBound(start, target) ==
    LET distance == IF start >= target THEN start - target ELSE target - start
    IN  (distance + ZOOM_INCREMENT - 1) \div ZOOM_INCREMENT

\* C23: for an accepted target and with no other request writing the tab's
\* zoom, applyGradualZoom applies at most ceil(|start - target| / 0.05)
\* incremental values, the final exact-set ends the request with a response,
\* and every accepted setZoom request whose callbacks run is answered.
C23_ConvergenceTerminates ==
    /\ [](\A r \in Requester :
            (/\ envAwait[r]
             /\ AcceptedTarget(track[r].target)
             /\ track[r].alone
             /\ track[r].start # 0)
            => track[r].steps <= StepBound(track[r].start, track[r].target.v))
    /\ [][\A r \in Requester :
            (conv[r].pc = "final" /\ conv'[r].pc # "final")
            => conv'[r] = NoConv /\ resp'[r] # NoResp]_vars
    /\ \A r \in Requester :
          (/\ msg[r].st = "sent"
           /\ msg[r].tabOk
           /\ msg[r].action = "setZoom"
           /\ AcceptedTarget(msg[r].zoomLevel))
          ~> (resp[r] # NoResp)

\* C23 witness: from 0.27 to the target 5.0 the request applied 95 incremental
\* values, the last one clamped to 5.0, then the final exact-set, and was
\* answered with success.
C23_Witness ==
    /\ track[ResetRequester].start = 270
    /\ track[ResetRequester].target = Num(ZOOM_BOUNDS_max)
    /\ track[ResetRequester].steps = StepBound(270, ZOOM_BOUNDS_max)
    /\ track[ResetRequester].outcome = "success"
    /\ tabZoom = ZOOM_BOUNDS_max
    /\ resp[ResetRequester] = Success

----------------------------------------------------------------------------
(* Claims about bursts of messages (SpecMsg) *)

\* C24: however many settingsUpdated and reanalyze messages arrive before the
\* analysis they scheduled has started, at most one analysis is pending for
\* them.
C24_AtMostOnePendingAnalysis ==
    timers[MESSAGE_DELAY] <= 1

----------------------------------------------------------------------------
(* Claims about one page load (Spec) *)

\* the passes that got past the marker check, started measuring and have not
\* ended yet
PassesUnderWay == {p \in Pass : pass[p].pc # "idle"}

\* C25: in a page load in which no settingsUpdated or reanalyze message has
\* arrived, at most one analysis pass gets past the marker check and measures:
\* no second pass is under way beside the first, whatever the order of
\* DOMContentLoaded, load and the timers.
C25_OneEvaluationPerPageLoad ==
    received = 0 => Cardinality(PassesUnderWay) <= 1

\* C26: a reset request and a pass's setZoom request are never in flight
\* together, and while the reset control is on the page and enabled no pass's
\* setZoom request is in flight.
C26_ResetExcludesAutomatic ==
    (button.present /\ (~button.disabled \/ ResetInFlight))
       => \A p \in Pass : pass[p].pc # "setZoom"

----------------------------------------------------------------------------
(* Claims about the sampling cap (Spec) *)

\* the first maxElementsToAnalyze qualifying candidates of the page, in
\* document order
FirstQualifying(doc) ==
    LET qualifying == textElementsOf(doc)
    IN  [i \in 1..Min(Len(qualifying), MaxElementsToAnalyze) |-> qualifying[i]]

\* C27: a pass measures at most maxElementsToAnalyze elements, and they are the
\* first qualifying candidates in document order: between batches its histogram
\* holds, for every font size, the weight of the first processedCount
\* qualifying candidates, and the predominant size it decides on is a heaviest
\* size of the first maxElementsToAnalyze qualifying candidates alone.
C27_SamplingCap ==
    /\ [](\A p \in Pass :
            pass[p].pc = "batch" =>
               /\ pass[p].processedCount <= Len(FirstQualifying(page))
               /\ \A s \in SizesSeen(textElementsOf(page)) :
                     ObjGetOrZero(pass[p].fontSizes, ToKey(s))
                        = AccumulatedWeight(
                             SubSeq(textElementsOf(page), 1, pass[p].processedCount), s))
    /\ [][\A p \in Pass :
            Decides(p) =>
               LET heaviest == HeaviestSizes(FirstQualifying(page))
               IN  IF pass'[p].pc = "getZoom"
                     THEN /\ pass'[p].predominantSize \in heaviest
                          /\ pass'[p].predominantSize < config.minFontSize.v
                     ELSE \A s \in heaviest :
                             AccumulatedWeight(FirstQualifying(page), s) > 0
                                => \E t \in heaviest : t >= config.minFontSize.v]_vars

\* C27 witness: the page with four qualifying elements, of which the first
\* three make 16px predominant and all four 13.5px, was analysed after a
\* settings update removed the marker: the marker is "processed" and the tab
\* is not zoomed.
C27_Witness ==
    /\ page = PageLong
    /\ received = 1
    /\ reply = Success
    /\ marker = "processed"
    /\ tabZoom = NATURAL_ZOOM
    /\ ~button.present
    /\ timers = NoTimers
    /\ \A p \in Pass : pass[p] = IdlePass

----------------------------------------------------------------------------
(* Claims about batched measurement (SpecHist) *)

\* the font sizes of the elements, measurable or not
FontSizesOf(elements) == {elements[i].fontSize : i \in 1..Len(elements)}

\* C28: analyzeTextSizes advances by batchSize elements per batch until the
\* list is exhausted, so it takes ceil(n / batchSize) batches and measures each
\* element once; after every batch, and when it resolves, the histogram maps
\* each positive font size to the sum of the text lengths of the elements of
\* that size measured so far and has no other property; elements that throw,
\* have no positive size or have no text add nothing.
C28_BatchedEqualsSinglePass ==
    /\ [](calc.st \in {"measuring", "measured", "resolved"} =>
            LET measured == SubSeq(calc.elements, 1, calc.processedCount)
            IN  /\ calc.processedCount <= Len(calc.elements)
                /\ calc.st # "measuring" => calc.processedCount = Len(calc.elements)
                /\ calc.processedCount % BatchSize = 0
                      \/ calc.processedCount = Len(calc.elements)
                /\ \A s \in FontSizesOf(calc.elements) :
                      ObjGetOrZero(calc.fontSizes, ToKey(s)) = AccumulatedWeight(measured, s)
                /\ \A i \in 1..Len(calc.fontSizes) :
                      /\ parseFloat(calc.fontSizes[i].key) \in SizesSeen(measured)
                      /\ \A j \in 1..Len(calc.fontSizes) :
                            calc.fontSizes[i].key = calc.fontSizes[j].key => i = j)
    /\ [][(calc.st = "measuring" /\ calc' # calc) =>
            /\ calc'.processedCount =
                  Min(calc.processedCount + BatchSize, Len(calc.elements))
            /\ calc'.processedCount > calc.processedCount
            /\ calc'.st = IF calc'.processedCount = Len(calc.elements)
                            THEN "measured" ELSE "measuring"]_vars

\* C28 witness: three elements were measured in two batches: the first and the
\* third share a font size and their lengths are added across the batches, and
\* the second, whose measurement throws, added nothing.
C28_Witness ==
    /\ calc.st = "measured"
    /\ Len(calc.elements) = 3
    /\ calc.processedCount = 3
    /\ calc.elements[2].throws
    /\ calc.elements[1] = E(135, 10)
    /\ calc.elements[3] = E(135, 20)
    /\ calc.fontSizes = <<Property(ToKey(135), 30)>>

----------------------------------------------------------------------------
(* Claims about the per-tab zoom record (SpecBg) *)

\* the items of the store whose key is the given one
ItemsAt(store, key) == {item \in store : item.key = key}

\* the step answers the convergence request r with success
ConvergenceSucceeds(r) ==
    /\ conv[r].pc \in {"getZoom", "final"}
    /\ resp[r] = NoResp
    /\ resp'[r] = Success

\* the step answers the request r with a failure
RequestFails(r) ==
    /\ resp[r] = NoResp
    /\ resp'[r].st = "response"
    /\ ~resp'[r].success

\* C29: the session store changes only in a step that answers a convergence
\* request with success, on the fast path or after the final exact set; after
\* such a step the store holds zoom_<tabId> with the requested target and
\* zoom_timestamp_<tabId>, and every other item as before; a step that answers
\* with a failure, from validation or from the provider, leaves the store alone.
C29_RecordOnlyOnSuccess ==
    [][/\ \A r \in Requester : ConvergenceSucceeds(r) =>
             /\ ItemsAt(zoomRecord', zoomKey(TabId)) =
                   {Item(zoomKey(TabId), conv[r].targetZoom)}
             /\ ItemsAt(zoomRecord', zoomTimestampKey(TabId)) =
                   {Item(zoomTimestampKey(TabId), Timestamp)}
             /\ \A item \in zoomRecord \cup zoomRecord' :
                   item.key \notin {zoomKey(TabId), zoomTimestampKey(TabId)}
                      => (item \in zoomRecord <=> item \in zoomRecord')
       /\ zoomRecord' # zoomRecord => \E r \in Requester : ConvergenceSucceeds(r)
       /\ \A r \in Requester : RequestFails(r) => zoomRecord' = zoomRecord]_vars

\* C29 witness: a request to zoom to 1.055 went through incremental steps and
\* the final exact set and has been answered with success; the store holds the
\* record of the tab with the value 1.055.
C29_Witness ==
    /\ resp[ResetRequester] = Success
    /\ track[ResetRequester].target = Num(1055)
    /\ track[ResetRequester].steps >= 1
    /\ track[ResetRequester].lastSet = 1055
    /\ tabZoom = 1055
    /\ zoomRecord = {Item("zoom_1", Num(1055)), Item("zoom_timestamp_1", Timestamp)}

----------------------------------------------------------------------------
(* The session store and the closing of tabs (SpecTabs) *)

\* the id of a second tab, whose content script is not modelled
OtherTabId == 12

TabIds == {TabId, OtherTabId}

\* closed: the tabs the browser has closed; removed: the tabs for which the
\* listener of chrome.tabs.onRemoved has run
Tabs(closed, removed) == [st |-> "tabs", closed |-> closed, removed |-> removed]

\* a variant that removes the zoom level and leaves its timestamp
handleTabRemovedZoomOnly(store, tabId) == sessionRemove(store, {zoomKey(tabId)})

\* handleTabRemoved: the session store after the removal of both items
handleTabRemoved(store, tabId) ==
    sessionRemove(store, {zoomKey(tabId), zoomTimestampKey(tabId)})

\* zoomLevel fields of the setZoom messages sent while tabs close
TabsZoomLevelInputs == {Num(1000), Num(1055), Num(1350), Num(10000)}

TabsInit ==
    /\ tabZoom \in StartZooms
    /\ zoomRecord \in {NoRecord, storeZoomLevel(NoRecord, OtherTabId, Num(DEFAULT_zoomLevel))}
    /\ msg = [r \in Requester |-> NoMsg]
    /\ conv = [r \in Requester |-> NoConv]
    /\ resp = [r \in Requester |-> NoResp]
    /\ track = [r \in Requester |-> NoTrack]
    /\ envAwait = [r \in Requester |-> FALSE]
    /\ page = PageNoContent
    /\ readyState = "complete"
    /\ boot = NotBooted
    /\ timers = NoTimers
    /\ marker = "none"
    /\ config = DEFAULT_CONFIG
    /\ pass = [p \in Pass |-> IdlePass]
    /\ button = NoButton
    /\ received = 0
    /\ handled = "none"
    /\ reply = NoResp
    /\ calc = Tabs({}, {})

\* the browser closes a tab; from here on the provider's calls for the tab end
\* with chrome.runtime.lastError set
TabCloses(tabId) ==
    /\ tabId \notin calc.closed
    /\ calc' = [calc EXCEPT !.closed = @ \cup {tabId}]
    /\ UNCHANGED <<tabZoom, zoomRecord, msg, conv, resp, track, envAwait,
                   page, readyState, boot, timers, marker, config, pass, button,
                   received, handled, reply>>

\* chrome.tabs.onRemoved: handleTabRemoved runs for a closed tab
HandleTabRemoved(tabId) ==
    /\ tabId \in calc.closed \ calc.removed
    /\ zoomRecord' = handleTabRemoved(zoomRecord, tabId)
    /\ calc' = [calc EXCEPT !.removed = @ \cup {tabId}]
    /\ UNCHANGED <<tabZoom, msg, conv, resp, track, envAwait,
                   page, readyState, boot, timers, marker, config, pass, button,
                   received, handled, reply>>

\* chrome.runtime.lastError of a provider call for the modelled tab
TabLastErrors == IF TabId \in calc.closed THEN {TRUE} ELSE BOOLEAN

TabsNext ==
    \/ \E a \in {"setZoom", "getZoom"}, z \in TabsZoomLevelInputs :
          TabId \notin calc.closed /\ EnvSend(ResetRequester, a, z, TRUE)
    \/ \E r \in Requester : EnvReceive(r)
    \/ \E r \in Requester : BgHandleMessage(r)
    \/ \E r \in Requester, lastError \in TabLastErrors : HandleGetZoomCallback(r, lastError)
    \/ \E r \in Requester, lastError \in TabLastErrors : GetZoomCallback(r, lastError)
    \/ \E r \in Requester, lastError \in TabLastErrors : SetZoomCallback(r, lastError)
    \/ \E r \in Requester : ZoomTimerFires(r)
    \/ \E r \in Requester, lastError \in TabLastErrors : FinalZoomCallback(r, lastError)
    \/ \E tabId \in TabIds : TabCloses(tabId)
    \/ \E tabId \in TabIds : HandleTabRemoved(tabId)

SpecTabs == TabsInit /\ [][TabsNext]_vars

----------------------------------------------------------------------------
(* Claims about the closing of tabs (SpecTabs) *)

\* the keys of a tab's zoom record
RecordKeys(tabId) == {zoomKey(tabId), zoomTimestampKey(tabId)}

\* a convergence of the modelled tab has begun and has not been answered
ConvergenceUnderWay ==
    \E r \in Requester : conv[r].pc \in {"getZoom", "setZoom", "timer", "final"}

----------------------------------------------------------------------------
(* Claims about provider errors and the fast path (SpecBg) *)

\* the request r waits for the callback of a provider call of its convergence
AwaitsProvider(r) == conv[r].pc \in {"getZoom", "setZoom", "final"}

\* C31: a convergence request fails only in the callback of one of its provider
\* calls, and the step that answers it with the failure ends the request: no
\* provider call is left pending or scheduled, the tab's zoom stays as the
\* earlier steps left it, and the session store is not written; a request
\* whose provider call failed stays answered with that failure.
C31_AbortOnProviderError ==
    /\ [](\A r \in Requester :
            /\ (resp[r].st = "response" /\ ~resp[r].success) => conv[r] = NoConv
            /\ track[r].outcome = "failure" =>
                  /\ resp[r] = Failure("provider")
                  /\ conv[r] = NoConv)
    /\ [][\A r \in Requester :
            /\ (AwaitsProvider(r) /\ RequestFails(r)) =>
                  /\ resp'[r] = Failure("provider")
                  /\ conv'[r] = NoConv
                  /\ tabZoom' = tabZoom
                  /\ zoomRecord' = zoomRecord
                  /\ msg' = msg
            /\ (conv[r].pc = "timer" \/ conv'[r].pc = "timer") => resp'[r] = NoResp]_vars

\* C31 witness: a request to zoom from 1.0 to 1.35 failed at a provider call
\* after two incremental steps: it has been answered with the failure, the tab
\* stays at 1.10, nothing is pending and no record was stored.
C31_Witness ==
    /\ resp[ResetRequester] = Failure("provider")
    /\ track[ResetRequester].outcome = "failure"
    /\ track[ResetRequester].target = Num(1350)
    /\ track[ResetRequester].start = 1000
    /\ track[ResetRequester].steps = 2
    /\ tabZoom = 1100
    /\ conv[ResetRequester] = NoConv
    /\ zoomRecord = NoRecord

\* the step runs the callback of the first chrome.tabs.getZoom of the
\* convergence request r and the provider reported no error
FirstReadAnswered(r) ==
    /\ conv[r].pc = "getZoom"
    /\ track[r].steps = 0
    /\ conv'[r] # conv[r]
    /\ ~RequestFails(r)

\* the zoom read differs from the requested target by less than 0.01
ReadWithinHundredth(r) ==
    /\ conv[r].targetZoom.t = "number"
    /\ tabZoom - conv[r].targetZoom.v < ZOOM_TOLERANCE
    /\ conv[r].targetZoom.v - tabZoom < ZOOM_TOLERANCE

\* C32: when the provider answers the first read of a convergence request with
\* a zoom that differs from the target by less than 0.01, the request is
\* answered with success in that step, no setZoom call is made for it and the
\* tab's zoom stays as it is; when the zoom read differs by 0.01 or more, a
\* setZoom call is made and no answer is given yet.
C32_NoOpFastPath ==
    [][\A r \in Requester : FirstReadAnswered(r) =>
          IF ReadWithinHundredth(r)
            THEN /\ resp'[r] = Success
                 /\ conv'[r] = NoConv
                 /\ tabZoom' = tabZoom
                 /\ track'[r].steps = 0
            ELSE /\ conv'[r].pc = "setZoom"
                 /\ resp'[r] = NoResp
                 /\ tabZoom' = tabZoom]_vars

\* C32 witness: a request for 1.005 found the tab at 1.0: it has been answered
\* with success, no step was applied and the tab is still at 1.0.
C32_Witness ==
    /\ resp[ResetRequester] = Success
    /\ track[ResetRequester].target = Num(1005)
    /\ track[ResetRequester].start = 1000
    /\ track[ResetRequester].steps = 0
    /\ tabZoom = 1000
    /\ conv[ResetRequester] = NoConv

----------------------------------------------------------------------------
(* Claims about the marker and the reset control (Spec) *)

\* the step writes a value to the marker that it did not hold
MarkerWritten == marker' # marker /\ marker' # "none"

\* the step measures the last elements of the pass in slot p
LastBatch(p) ==
    /\ pass[p].pc \in {"idle", "batch"}
    /\ Len(elementsToAnalyze(page)) > 0
    /\ Len(elementsToAnalyze(page)) - pass[p].processedCount <= BatchSize

\* the step ends the pass in slot p: afterwards the slot measures nothing, has
\* no message on its way and waits for no answer
PassEnds(p) ==
    /\ pass'[p] = IdlePass
    /\ msg'[p] = NoMsg
    /\ resp'[p] = NoResp
    /\ conv'[p] = NoConv

\* C33: the marker is always absent, 'processed' or 'zoomed'; the step that
\* writes it is the last step of an analysis pass: it follows the measurement
\* of the last batch, and for 'zoomed' the success answer to the pass's setZoom
\* message, and for 'processed' either the computation of the predominant size
\* or the success answer to the pass's getZoom message; after the write the
\* pass measures nothing and sends nothing.
C33_MarkerAtTerminalDecision ==
    /\ [](marker \in {"none", "processed", "zoomed"})
    /\ [][MarkerWritten =>
            \E p \in Pass :
               /\ PassEnds(p)
               /\ \A q \in Pass \ {p} : pass'[q] = pass[q] /\ msg'[q] = msg[q]
               /\ marker' = "zoomed" =>
                     /\ pass[p].pc = "setZoom"
                     /\ resp[p] = Success
               /\ marker' = "processed" =>
                     \/ /\ pass[p].pc = "getZoom"
                        /\ resp[p].st = "response"
                        /\ resp[p].success
                     \/ LastBatch(p)]_vars

\* C33 witness: after a reanalyze message removed the marker, a pass over the
\* small-text page found the tab at 1.6, above the configured zoom, and wrote
\* 'processed' after the answer to its getZoom message; nothing is pending.
C33_Witness ==
    /\ handled = "reanalyze"
    /\ page = PageSmallText
    /\ tabZoom = 1600
    /\ marker = "processed"
    /\ timers = NoTimers
    /\ \A p \in Pass : pass[p] = IdlePass /\ msg[p] = NoMsg /\ resp[p] = NoResp

----------------------------------------------------------------------------
(* The configuration with all its fields under settings updates (SpecUpdate) *)

\* config = { ...DEFAULT_CONFIG } with the fields no handler assigns
FULL_CONFIG ==
    [minFontSize |-> Num(DEFAULT_minFontSize),
     zoomLevel |-> Num(DEFAULT_zoomLevel),
     maxElementsToAnalyze |-> Num(MaxElementsToAnalyze),
     batchSize |-> Num(BatchSize),
     analysisDelay |-> Num(DEFAULT_analysisDelay)]

\* a settings object that may carry the other fields of the configuration too
FullSettings(minFontSize, zoomLevel, other) ==
    [t |-> "object", minFontSize |-> minFontSize, zoomLevel |-> zoomLevel,
     maxElementsToAnalyze |-> other, batchSize |-> other, analysisDelay |-> other]

\* settings with minFontSize absent, 12px or 0, zoomLevel absent or 1.5, and the
\* other fields absent or 1
UpdSettings ==
    {FullSettings(m, z, other) :
        m \in {Undefined, Num(120), Num(0)}, z \in {Undefined, Num(1500)},
        other \in {Undefined, Num(1)}}

UpdInit ==
    /\ tabZoom = NATURAL_ZOOM
    /\ zoomRecord = NoRecord
    /\ msg = [r \in Requester |-> NoMsg]
    /\ conv = [r \in Requester |-> NoConv]
    /\ resp = [r \in Requester |-> NoResp]
    /\ track = [r \in Requester |-> NoTrack]
    /\ envAwait = [r \in Requester |-> FALSE]
    /\ page = PageNoContent
    /\ readyState = "loading"
    /\ boot = NotBooted
    /\ timers = NoTimers
    /\ marker = "none"
    /\ config = FULL_CONFIG
    /\ pass = [p \in Pass |-> IdlePass]
    /\ button = NoButton
    /\ received = 0
    /\ handled = "none"
    /\ reply = NoResp
    /\ \E store \in CfgStores, failed \in BOOLEAN :
          \E updates \in [1..MaxMessages -> UpdSettings] :
             calc = CfgInputs(store, failed, updates)

UpdNext ==
    \/ Bootstrap(storageSyncGet(calc.store), calc.failed)
    \/ /\ received < Len(calc.updates)
       /\ ContentHandleMessage("settingsUpdated", calc.updates[received + 1])

SpecUpdate == UpdInit /\ [][UpdNext]_vars

\* the step handles the next settingsUpdated message
UpdateHandled == received' = received + 1

----------------------------------------------------------------------------
(* Settings payloads of any kind at the content script's listener (SpecPayload) *)

\* a settings field that is no settings object: absent, null, a string, a number
Malformed(t) == [t |-> t, minFontSize |-> Undefined, zoomLevel |-> Undefined]

PayloadSettings ==
    {Settings(Num(100), Undefined), Settings(Undefined, Num(1500)),
     Malformed("undefined"), Malformed("null"), Malformed("string"), Malformed("number")}

PayloadInit ==
    /\ tabZoom = NATURAL_ZOOM
    /\ zoomRecord = NoRecord
    /\ msg = [r \in Requester |-> NoMsg]
    /\ conv = [r \in Requester |-> NoConv]
    /\ resp = [r \in Requester |-> NoResp]
    /\ track = [r \in Requester |-> NoTrack]
    /\ envAwait = [r \in Requester |-> FALSE]
    /\ page = PageNoContent
    /\ readyState = "complete"
    /\ boot = NotBooted
    /\ timers = NoTimers
    /\ marker \in MsgMarkers
    /\ config = DEFAULT_CONFIG
    /\ pass = [p \in Pass |-> IdlePass]
    /\ button = NoButton
    /\ received = 0
    /\ handled = "none"
    /\ reply = NoResp
    /\ \E updates \in [1..MaxBurst -> PayloadSettings] :
          calc = CfgInputs(EmptyStore, FALSE, updates)

\* the messages arrive one after the other, each either settingsUpdated with
\* the next payload or reanalyze
PayloadNext ==
    \/ /\ received < Len(calc.updates)
       /\ ContentHandleMessage("settingsUpdated", calc.updates[received + 1])
    \/ /\ received < Len(calc.updates)
       /\ ContentHandleMessage("reanalyze", calc.updates[received + 1])

SpecPayload == PayloadInit /\ [][PayloadNext]_vars

\* the settings field is missing, null or not an object
MalformedPayload(settings) == settings.t \in {"undefined", "null", "string", "number"}

\* C35: a settingsUpdated message whose settings field is missing, null or not
\* an object is answered with a failure that carries a reason and changes
\* neither the configuration nor the marker nor the pending analyses; whatever
\* came before, a settingsUpdated message with a settings object and a
\* reanalyze message are answered with success, remove the marker and schedule
\* an analysis.
C35_MalformedSettingsRejected ==
    [][UpdateHandled =>
         LET settings == calc.updates[received']
         IN  IF handled' = "settingsUpdated" /\ MalformedPayload(settings)
               THEN /\ reply'.st = "response"
                    /\ ~reply'.success
                    /\ reply'.error # "none"
                    /\ config' = config
                    /\ marker' = marker
                    /\ timers' = timers
               ELSE /\ reply' = Success
                    /\ marker' = "none"
                    /\ timers' = [timers EXCEPT ![MESSAGE_DELAY] = @ + 1]]_vars

\* C35 witness: a settingsUpdated message with null for its settings was
\* refused, and the next settingsUpdated message, with minFontSize 10px, was
\* accepted: the configuration changed and one analysis is scheduled.
C35_Witness ==
    /\ received = 2
    /\ calc.updates[1] = Malformed("null")
    /\ calc.updates[2] = Settings(Num(100), Undefined)
    /\ handled = "settingsUpdated"
    /\ reply = Success
    /\ config.minFontSize = Num(100)
    /\ timers[MESSAGE_DELAY] = 1
    /\ marker = "none"

\* the step puts a reset control on a page that had none
ControlInjected == ~button.present /\ button'.present

\* C36: the page never holds more than one element with the id of the reset
\* control, and holds one exactly when the control is present; a control is
\* put on the page only by the step in which an analysis pass receives the
\* success answer to its setZoom message, and a pass that receives it while a
\* control is there leaves the control as it is.
C36_ResetControlIdempotent ==
    /\ [](/\ button.controls <= 1
          /\ button.present <=> button.controls = 1)
    /\ [][/\ ControlInjected =>
               \E p \in Pass : pass[p].pc = "setZoom" /\ resp[p] = Success /\ pass'[p] = IdlePass
          /\ \A p \in Pass :
               (/\ button.present
                /\ pass[p].pc = "setZoom"
                /\ resp[p] = Success
                /\ pass'[p] = IdlePass) => button' = button]_vars

\* C36 witness: two passes over the small-text page ran side by side and both
\* asked for 1.35; the first has received its success answer and put the control
\* on the page, and the success answer to the second one is waiting.
C36_Witness ==
    /\ page = PageSmallText
    /\ button.present
    /\ button.controls = 1
    /\ marker = "zoomed"
    /\ \E p \in Pass : pass[p].pc = "setZoom" /\ resp[p] = Success

----------------------------------------------------------------------------
(* Two requests of one tab at the background script (SpecDuel) *)

\* the senders of the two requests: the reset control and an analysis pass
DuelRequesters == {ResetRequester, 1}

\* zoomLevel fields of the two requests: 1.0, as the reset control sends, and
\* the default 1.35 and 1.2, as analysis passes send
DuelZoomLevelInputs == {Num(NATURAL_ZOOM), Num(DEFAULT_zoomLevel), Num(1200)}

\* sent: the requesters whose message is on its way or was handled
Duel(sent) == [st |-> "duel", sent |-> sent]

DuelInit ==
    /\ tabZoom \in {NATURAL_ZOOM, 1100}
    /\ zoomRecord = NoRecord
    /\ msg = [r \in Requester |-> NoMsg]
    /\ conv = [r \in Requester |-> NoConv]
    /\ resp = [r \in Requester |-> NoResp]
    /\ track = [r \in Requester |-> NoTrack]
    /\ envAwait = [r \in Requester |-> FALSE]
    /\ page = PageNoContent
    /\ readyState = "complete"
    /\ boot = NotBooted
    /\ timers = NoTimers
    /\ marker = "none"
    /\ config = DEFAULT_CONFIG
    /\ pass = [p \in Pass |-> IdlePass]
    /\ button = NoButton
    /\ received = 0
    /\ handled = "none"
    /\ reply = NoResp
    /\ calc = Duel({})

\* chrome.runtime.sendMessage from the tab: one message per requester
DuelSend(r, action, zoomLevel) ==
    /\ r \notin calc.sent
    /\ calc' = Duel(calc.sent \cup {r})
    /\ msg' = [msg EXCEPT ![r] = Message(action, zoomLevel, TRUE)]
    /\ UNCHANGED <<tabZoom, zoomRecord, conv, resp, track, envAwait,
                   page, readyState, boot, timers, marker, config, pass, button,
                   received, handled, reply>>

\* the listener or the next callback of the request r runs
DuelStep(r) ==
    \/ BgHandleMessage(r)
    \/ \E lastError \in BOOLEAN : HandleGetZoomCallback(r, lastError)
    \/ \E lastError \in BOOLEAN : GetZoomCallback(r, lastError)
    \/ \E lastError \in BOOLEAN : SetZoomCallback(r, lastError)
    \/ ZoomTimerFires(r)
    \/ \E lastError \in BOOLEAN : FinalZoomCallback(r, lastError)

DuelNext ==
    \/ \E r \in DuelRequesters, action \in {"setZoom", "getZoom"},
          zoomLevel \in DuelZoomLevelInputs : DuelSend(r, action, zoomLevel)
    \/ \E r \in DuelRequesters : DuelStep(r)

\* the provider answers every call and every timer fires: the callbacks of each
\* request keep running
SpecDuel ==
    DuelInit /\ [][DuelNext]_vars /\ \A r \in DuelRequesters : WF_vars(DuelStep(r))

\* C37: every message the background script receives from the tab is answered,
\* and its answer is given once: it is never replaced by another.
C37_ExactlyOneResponse ==
    /\ [][\A r \in Requester : resp[r] # NoResp => resp'[r] = resp[r]]_vars
    /\ \A r \in DuelRequesters : (msg[r].st = "sent") ~> (resp[r] # NoResp)

----------------------------------------------------------------------------
(* Claims about the zoom at the moment of success (SpecBg) *)

\* the step answers the convergence request r with success and no other
\* request wrote the tab's zoom while r was under way
SucceedsUndisturbed(r) == ConvergenceSucceeds(r) /\ track'[r].alone

\* C38 (as stated): when a convergence request is answered with success and no
\* other request changed the tab's zoom meanwhile, the tab's zoom equals the
\* requested target exactly and the stored zoom record equals the tab's zoom.
C38_SuccessMeansTargetReached ==
    [][\A r \in Requester : SucceedsUndisturbed(r) =>
          /\ tabZoom' = conv[r].targetZoom.v
          /\ ItemsAt(zoomRecord', zoomKey(TabId)) = {Item(zoomKey(TabId), Num(tabZoom'))}]_vars

\* C38 (amended): when a convergence request is answered with success and no
\* other request changed the tab's zoom meanwhile, the tab's zoom differs from
\* the requested target by less than 0.01, and equals it when the answer
\* follows the final exact set; the stored zoom record holds the requested
\* target, which is the tab's zoom only up to that tolerance.
C38_SuccessWithinTolerance ==
    [][\A r \in Requester : SucceedsUndisturbed(r) =>
          /\ tabZoom' - conv[r].targetZoom.v < ZOOM_TOLERANCE
          /\ conv[r].targetZoom.v - tabZoom' < ZOOM_TOLERANCE
          /\ conv[r].pc = "final" => tabZoom' = conv[r].targetZoom.v
          /\ ItemsAt(zoomRecord', zoomKey(TabId)) =
                {Item(zoomKey(TabId), conv[r].targetZoom)}]_vars

\* C38 witness: a request for 1.005 found the tab at 1.0 and was answered with
\* success: the tab is at 1.0 and the record holds 1.005.
C38_Witness ==
    /\ resp[ResetRequester] = Success
    /\ track[ResetRequester].alone
    /\ track[ResetRequester].target = Num(1005)
    /\ tabZoom = 1000
    /\ zoomRecord = storeZoomLevel(NoRecord, TabId, Num(1005))

\* C39: whenever the reset control is on the page and no reset request is in
\* flight, the marker is 'zoomed'.
C39_ControlImpliesZoomed ==
    (button.present /\ ~ResetInFlight) => marker = "zoomed"

----------------------------------------------------------------------------
(* One load of the small-text page with any stored zoom level (SpecLoad) *)

\* zoomLevel values the popup's validation accepts: its minimum 1.0, the
\* default 1.35 and its maximum 2.0
LoadStoredSettings ==
    {[DEFAULT_CONFIG EXCEPT !.zoomLevel = Num(zoomLevel)] :
        zoomLevel \in {VALIDATION_zoomLevel_min, DEFAULT_zoomLevel, VALIDATION_zoomLevel_max}}

\* zoom: the tab's zoom when the page loads; stored: what chrome.storage.sync holds
Load(zoom, stored) == [st |-> "load", zoom |-> zoom, stored |-> stored]

LoadInit ==
    /\ tabZoom \in UserZooms
    /\ zoomRecord = NoRecord
    /\ msg = [r \in Requester |-> NoMsg]
    /\ conv = [r \in Requester |-> NoConv]
    /\ resp = [r \in Requester |-> NoResp]
    /\ track = [r \in Requester |-> NoTrack]
    /\ envAwait = [r \in Requester |-> FALSE]
    /\ page = PageSmallText
    /\ readyState = "loading"
    /\ boot = NotBooted
    /\ timers = NoTimers
    /\ marker = "none"
    /\ config = DEFAULT_CONFIG
    /\ pass = [p \in Pass |-> IdlePass]
    /\ button = NoButton
    /\ received = 0
    /\ handled = "none"
    /\ reply = NoResp
    /\ \E stored \in LoadStoredSettings : calc = Load(tabZoom, stored)

LoadNext ==
    \/ Bootstrap(calc.stored, FALSE)
    \/ DOMContentLoaded
    \/ WindowLoad
    \/ \E p \in Pass, delay \in Delays : AnalysisTimerFires(p, delay)
    \/ \E p \in Pass : BatchTimerFires(p)
    \/ \E p \in Pass : ContentGetZoomCallback(p)
    \/ \E p \in Pass : ContentSetZoomCallback(p)
    \/ BgStep

SpecLoad == LoadInit /\ [][LoadNext]_vars

\* C40: when a pass writes 'zoomed' to a marker that was absent and injects the
\* reset control, the tab's zoom differs from the zoom the tab had when the
\* page loaded, for every stored zoomLevel from 1.0 to 2.0.
C40_ZoomedMeansChanged ==
    [][(marker # "zoomed" /\ marker' = "zoomed") => tabZoom' # calc.zoom]_vars

====
